---------------------------- MODULE Spec2Model ----------------------------
(***************************************************************************)
(* State-machine model of the matching / tiering / price-calculation       *)
(* engine of src/pricing_model_complete.py (MatchingEngine, PricingEngine). *)
(*                                                                         *)
(* Numbers.  The source computes in float64.  The model computes exactly   *)
(* in fixed point: every amount of money is an integer number of           *)
(* 1/10000ths of a currency unit (Unit), every fraction (target_nm,        *)
(* Fixed_SDPO_Pct) an integer number of percent.  The inputs are chosen so *)
(* that every product the source forms is exact in this representation.    *)
(* A missing value (pandas NaN) is the value NaN; every operator below     *)
(* propagates or tests it the way numpy / pandas do.                       *)
(*                                                                         *)
(* Tables.  A DataFrame is a sequence of records (its rows, in row order);  *)
(* the columns of a table are the fields of its rows, so a column that      *)
(* exists only for some inputs (MOP, BDPO) is a field only those rows have. *)
(*                                                                         *)
(* Strings.  A Python string is the sequence of its characters.            *)
(***************************************************************************)
EXTENDS Integers, Sequences, FiniteSets, TLC

VARIABLES
    pc,                     \* the stage the pipeline has completed
    inputs,                 \* the caller's tables: im, comp, cogs, excl, stock, gmv, sdpo
    im_df,                  \* run_matching's product table (a copy of the caller's)
    comp_df,                \* run_matching's competitor table (a copy of the caller's)
    todo,                   \* _match_opp: the groups its loop has still to visit
    sub_im,                 \* _match_opp: the products of the last group, by cost
    sub_comp,               \* _match_opp: the pool rows of the last group, by price
    valid_comp,             \* _match_opp: the spaced competitor rows of the last group
    matches,                \* opp_results, then all_matches, then final_matches
    df,                     \* run_matching's result and run_pricing's working table
    target_margin_override, \* run_pricing's target_margin_override (None or a number)
    first_run               \* <<>>, or <<the table a first run of the pipeline returned>>

vars == <<pc, inputs, im_df, comp_df, todo, sub_im, sub_comp, valid_comp,
          matches, df, target_margin_override, first_run>>

\* What run_pricing's stages after the merges leave alone.
matching_vars == <<inputs, im_df, comp_df, todo, sub_im, sub_comp, valid_comp,
                   matches>>

\* ------------------------------------------------------------------ numbers

\* One currency unit, in the model's fixed-point representation.
Unit == 100 * 100

\* pandas / numpy missing value.
NaN == 0 - 999999999

\* Python None (run_pricing's default for target_margin_override).
None == 0 - 999999998

IsNaN(x) == x = NaN

\* a + b, a - b in float arithmetic: NaN if either operand is NaN.
Add(a, b) == IF IsNaN(a) \/ IsNaN(b) THEN NaN ELSE a + b
Sub(a, b) == IF IsNaN(a) \/ IsNaN(b) THEN NaN ELSE a - b

\* a * p/100 for a percentage p.
MulPct(a, p) == IF IsNaN(a) \/ IsNaN(p) THEN NaN ELSE (a * p) \div 100

\* Comparisons: every comparison with NaN is False.
Gt(a, b) == ~IsNaN(a) /\ ~IsNaN(b) /\ a > b
Ge(a, b) == ~IsNaN(a) /\ ~IsNaN(b) /\ a >= b
Le(a, b) == ~IsNaN(a) /\ ~IsNaN(b) /\ a <= b

\* np.maximum / np.minimum: NaN if either operand is NaN.
NpMaximum(a, b) == IF IsNaN(a) \/ IsNaN(b) THEN NaN ELSE IF a >= b THEN a ELSE b
NpMinimum(a, b) == IF IsNaN(a) \/ IsNaN(b) THEN NaN ELSE IF a <= b THEN a ELSE b

\* Python's builtin min(a, b): b if b < a, else a (so a when b is NaN).
PyMin(a, b) == IF Gt(a, b) THEN b ELSE a

\* Series.fillna(d)
Fillna(x, d) == IF IsNaN(x) THEN d ELSE x

\* np.floor to a whole unit.
NpFloor(x) == IF IsNaN(x) THEN NaN ELSE (x \div Unit) * Unit

\* Series.round(0): round half to even, to a whole unit.
Round0(x) ==
    IF IsNaN(x) THEN NaN
    ELSE LET q == x \div Unit
             r == x % Unit
         IN  IF 2 * r < Unit THEN q * Unit
             ELSE IF 2 * r > Unit THEN (q + 1) * Unit
             ELSE IF q % 2 = 0 THEN q * Unit ELSE (q + 1) * Unit

\* Series.replace(0, 1)
Replace01(x) == IF x = 0 THEN Unit ELSE x

\* num / den >= pct/100 and num / den > pct/100 for den > 0; False on NaN.
RatioGe(num, den, pct) == ~IsNaN(num) /\ ~IsNaN(den) /\ num * 100 >= pct * den
RatioGt(num, den, pct) == ~IsNaN(num) /\ ~IsNaN(den) /\ num * 100 > pct * den


\* ------------------------------------------------------------------ tables

\* DataFrame.apply(f, axis=1) that adds or replaces columns: row by row.
MapRows(f(_), t) == [i \in 1..Len(t) |-> f(t[i])]

\* DataFrame[mask]: the rows that satisfy Test, in order.
Filter(t, Test(_)) == SelectSeq(t, Test)

\* pd.concat of a sequence of tables.
RECURSIVE ConcatAll(_)
ConcatAll(ts) == IF ts = <<>> THEN <<>> ELSE Head(ts) \o ConcatAll(Tail(ts))

\* pd.merge(left, right, how='left'): for every left row, in order, one row
\* per matching right row (in the order of right), or one row filled with
\* missing values when no right row matches.
LeftMerge(left, right, On(_, _), Join(_, _), Missing(_)) ==
    ConcatAll([i \in 1..Len(left) |->
        LET hits == SelectSeq(right, LAMBDA r : On(left[i], r))
        IN  IF hits = <<>> THEN <<Missing(left[i])>>
            ELSE [k \in 1..Len(hits) |-> Join(left[i], hits[k])]])

\* pd.merge(left, right, how='inner').
InnerMerge(left, right, On(_, _), Join(_, _)) ==
    ConcatAll([i \in 1..Len(left) |->
        LET hits == SelectSeq(right, LAMBDA r : On(left[i], r))
        IN  [k \in 1..Len(hits) |-> Join(left[i], hits[k])]])

\* DataFrame.drop_duplicates(subset): the first row of every key, in order.
DropDuplicates(t, Key(_)) ==
    LET first == {i \in 1..Len(t) : \A j \in 1..(i - 1) : Key(t[j]) # Key(t[i])}
        F[n \in 0..Len(t)] ==
            IF n = 0 THEN <<>>
            ELSE IF n \in first THEN Append(F[n - 1], t[n]) ELSE F[n - 1]
    IN  F[Len(t)]

\* A stable sort of t (sort_values on several columns, kind of lexsort): rows
\* ascend in Less, rows that Less does not order keep their order.
StableSort(t, Less(_, _)) ==
    LET before(i) == {j \in 1..Len(t) :
                        Less(t[j], t[i]) \/ (~Less(t[i], t[j]) /\ j < i)}
        rank == [i \in 1..Len(t) |-> Cardinality(before(i))]
    IN  [k \in 1..Len(t) |-> t[CHOOSE i \in 1..Len(t) : rank[i] = k - 1]]

\* The permutations of 1..n, as sequences.
Perms(n) == {p \in [1..n -> 1..n] : \A i, j \in 1..n : p[i] = p[j] => i = j}

\* DataFrame.sort_values(col) with the default, unstable sort: the orders of t
\* that ascend in Key; rows with equal keys may come in any order.
SortedOrders(t, Key(_)) ==
    {[i \in 1..Len(t) |-> t[p[i]]] :
        p \in {q \in Perms(Len(t)) :
                 \A i, j \in 1..Len(t) : i < j => Key(t[q[i]]) <= Key(t[q[j]])}}


\* ------------------------------------------------------------- strings
\* A Python string is the sequence of its characters.  A cell that holds no
\* string is CellNaN (a missing value, float nan) or CellNone (None).

CellNaN  == <<"<nan>">>
CellNone == <<"<None>">>

Digits == {"0", "1", "2", "3", "4", "5", "6", "7", "8", "9"}
DigitChars == <<"0", "1", "2", "3", "4", "5", "6", "7", "8", "9">>
UpperChars == <<"A", "B", "C", "D", "E", "F", "G", "H", "I", "J", "K", "L", "M",
                "N", "O", "P", "Q", "R", "S", "T", "U", "V", "W", "X", "Y", "Z">>
LowerChars == <<"a", "b", "c", "d", "e", "f", "g", "h", "i", "j", "k", "l", "m",
                "n", "o", "p", "q", "r", "s", "t", "u", "v", "w", "x", "y", "z">>
Spaces == {" ", "\t"}
\* regex \w
WordChars == Digits \cup {"_"} \cup {UpperChars[i] : i \in 1..26}
                    \cup {LowerChars[i] : i \in 1..26}

DigitVal(c) == (CHOOSE i \in 1..10 : DigitChars[i] = c) - 1

\* str(x)
Str(x) ==
    IF x = CellNaN THEN <<"n", "a", "n">>
    ELSE IF x = CellNone THEN <<"N", "o", "n", "e">>
    ELSE x

\* bool(x) of a cell: None and the empty string are false, nan is true.
Truthy(x) == x # CellNone /\ x # <<>>

\* str.lower()
LowerChar(c) ==
    IF \E i \in 1..26 : UpperChars[i] = c
    THEN LowerChars[CHOOSE i \in 1..26 : UpperChars[i] = c]
    ELSE c
StrLower(s) == [i \in 1..Len(s) |-> LowerChar(s[i])]

\* str.strip()
StrStrip(s) ==
    LET keep == {i \in 1..Len(s) : s[i] \notin Spaces}
    IN  IF keep = {} THEN <<>>
        ELSE SubSeq(s, CHOOSE i \in keep : \A j \in keep : i <= j,
                       CHOOSE i \in keep : \A j \in keep : j <= i)

\* str.upper() of one character.
UpperChar(c) ==
    IF \E i \in 1..26 : LowerChars[i] = c
    THEN UpperChars[CHOOSE i \in 1..26 : LowerChars[i] = c]
    ELSE c

\* str.title(): every letter that follows no letter in upper case, the other
\* letters in lower case.
StrTitle(s) ==
    [i \in 1..Len(s) |->
        IF i = 1 \/ (LowerChar(s[i - 1]) = s[i - 1] /\ UpperChar(s[i - 1]) = s[i - 1])
        THEN UpperChar(s[i]) ELSE LowerChar(s[i])]

\* The characters of the tables, in code point order.
CodePointOrder ==
    <<" ", "%", "(", ")", "-", ".", "0", "1", "2", "3", "4", "5", "6", "7", "8", "9",
      ":", "<", ">", "A", "B", "C", "D", "E", "F", "G", "H", "I", "J", "K", "L",
      "M", "N", "O", "P", "Q", "R", "S", "T", "U", "V", "W", "X", "Y", "Z", "_",
      "a", "b", "c", "d", "e", "f", "g", "h", "i", "j", "k", "l", "m",
      "n", "o", "p", "q", "r", "s", "t", "u", "v", "w", "x", "y", "z">>
CharRank(c) == CHOOSE i \in 1..Len(CodePointOrder) : CodePointOrder[i] = c

\* a < b for two strings.
StrLess(a, b) ==
    \E k \in 1..Len(b) :
        /\ \A j \in 1..(k - 1) : j <= Len(a) /\ a[j] = b[j]
        /\ (k > Len(a) \/ CharRank(a[k]) < CharRank(b[k]))

\* s[i:].startswith(w)
HasAt(s, i, w) ==
    /\ i >= 1
    /\ i + Len(w) - 1 <= Len(s)
    /\ SubSeq(s, i, i + Len(w) - 1) = w

\* w in s
Contains(s, w) == \E i \in 1..(Len(s) + 1) : HasAt(s, i, w)

\* The first index >= i of s that holds no whitespace (Len(s) + 1 if none): the
\* end of a greedy \s* that starts at i.
RECURSIVE SkipSpaces(_, _)
SkipSpaces(s, i) ==
    IF i <= Len(s) /\ s[i] \in Spaces THEN SkipSpaces(s, i + 1) ELSE i

\* The end (last index) of the maximal run of digits of s that starts at i.
RECURSIVE DigitRunEnd(_, _)
DigitRunEnd(s, i) ==
    IF i < Len(s) /\ s[i + 1] \in Digits THEN DigitRunEnd(s, i + 1) ELSE i

\* int(s[i..j]) for a run of digits.
RECURSIVE IntOf(_, _, _)
IntOf(s, i, j) ==
    IF j < i THEN 0 ELSE IntOf(s, i, j - 1) * 10 + DigitVal(s[j])

\* str(n) for an integer n >= 0.
RECURSIVE IntStr(_)
IntStr(n) ==
    IF n < 10 THEN <<DigitChars[n + 1]>>
    ELSE IntStr(n \div 10) \o <<DigitChars[(n % 10) + 1]>>

\* The least element of a non-empty set of integers, and the greatest.
MinOf(S) == CHOOSE x \in S : \A y \in S : x <= y
MaxOf(S) == CHOOSE x \in S : \A y \in S : y <= x

\* The indices at which a run of digits of s starts.
RunStarts(s) ==
    {i \in 1..Len(s) : s[i] \in Digits /\ (i = 1 \/ s[i - 1] \notin Digits)}

\* Series.str.extract(r'(\d+)').astype(float): the number written by the first
\* run of digits of s, NaN when s has no digit.
ExtractNumber(s) ==
    IF RunStarts(s) = {} THEN NaN
    ELSE LET i == MinOf(RunStarts(s)) IN IntOf(s, i, DigitRunEnd(s, i))

\* re.search(r'(\d+)\s*(?:u1|u2|...)', s) for the unit words us: the start of
\* the first run of digits that is followed, after optional whitespace, by one
\* of the unit words; 0 when there is no match.  (\d+ is greedy and what
\* follows it starts with no digit, so group 1 is a whole run of digits.)
UnitAfter(s, b, us) ==
    \E u \in us : HasAt(s, SkipSpaces(s, DigitRunEnd(s, b) + 1), u)
SearchCountUnit(s, us) ==
    LET hits == {b \in RunStarts(s) : UnitAfter(s, b, us)}
    IN  IF hits = {} THEN 0 ELSE MinOf(hits)

\* The text of the run of digits of s that starts at b.
RunText(s, b) == SubSeq(s, b, DigitRunEnd(s, b))

\* --------------------------------------------------- RobustUOMNormalizer

W_pack   == <<"p", "a", "c", "k">>
W_pcs    == <<"p", "c", "s">>
W_pieces == <<"p", "i", "e", "c", "e", "s">>
W_pc     == <<"p", "c">>
W_piece  == <<"p", "i", "e", "c", "e">>
W_g      == <<"g">>
W_ml     == <<"m", "l">>
W_eggs   == <<"e", "g", "g", "s">>
W_i_pack == <<"i", " ", "p", "a", "c", "k">>
W_nan    == <<"n", "a", "n">>
W_insufficient == <<"i", "n", "s", "u", "f", "f", "i", "c", "i", "e", "n", "t">>
W_NA == <<"N", "A">>
W_unknown == <<"u", "n", "k", "n", "o", "w", "n">>
W_2_combo_raw == <<"2", " ", "c", "o", "m", "b", "o">>
W_2_combo == <<"2", "_", "c", "o", "m", "b", "o">>
Suffix_pieces == <<"_", "p", "i", "e", "c", "e", "s">>
Suffix_g  == <<"_", "g">>
Suffix_ml == <<"_", "m", "l">>
Suffix_kg == <<"_", "k", "g">>
Suffix_l  == <<"_", "l">>

\* s.replace("i pack", "1 pack")
ReplaceIPack(s) ==
    [i \in 1..Len(s) |-> IF HasAt(s, i, W_i_pack) THEN "1" ELSE s[i]]

\* r'\(\s*(\d+)\s*(?:pcs|pieces|pc)\s*\)' matches s at index j.
ParenCountAt(s, j) ==
    /\ HasAt(s, j, <<"(">>)
    /\ LET k == SkipSpaces(s, j + 1)
       IN  /\ k <= Len(s)
           /\ s[k] \in Digits
           /\ \E u \in {W_pcs, W_pieces, W_pc} :
                LET m == SkipSpaces(s, DigitRunEnd(s, k) + 1)
                IN  /\ HasAt(s, m, u)
                    /\ HasAt(s, SkipSpaces(s, m + Len(u)), <<")">>)

\* re.search(r'pack.*\(\s*(\d+)\s*(?:pcs|pieces|pc)\s*\)', s): the index of the
\* "(" of the match (the last one after the first "pack": .* is greedy), 0 when
\* there is no match.
SearchPackParen(s) ==
    LET packs == {i \in 1..Len(s) : HasAt(s, i, W_pack)}
        hits  == IF packs = {} THEN {}
                 ELSE {j \in 1..Len(s) : j >= MinOf(packs) + 4 /\ ParenCountAt(s, j)}
    IN  IF hits = {} THEN 0 ELSE MaxOf(hits)

\* re.search(r'^(\d+)\s*pack', s) matches.
MatchLeadingPack(s) ==
    /\ Len(s) >= 1
    /\ s[1] \in Digits
    /\ HasAt(s, SkipSpaces(s, DigitRunEnd(s, 1) + 1), W_pack)

\* s.isdigit()
IsDigitStr(s) == Len(s) >= 1 /\ \A i \in 1..Len(s) : s[i] \in Digits

\* _parse_uom_string with the weight and volume patterns tried before the
\* pack and piece patterns (a changed precedence).
parse_uom_string_weight_first(s0) ==
    IF s0 = W_2_combo_raw THEN W_2_combo
    ELSE LET s == ReplaceIPack(s0)
             j == SearchPackParen(s)
         IN  IF SearchCountUnit(s, {W_g}) # 0
               THEN RunText(s, SearchCountUnit(s, {W_g})) \o Suffix_g
             ELSE IF SearchCountUnit(s, {W_ml}) # 0
               THEN RunText(s, SearchCountUnit(s, {W_ml})) \o Suffix_ml
             ELSE IF j # 0 THEN RunText(s, SkipSpaces(s, j + 1)) \o Suffix_pieces
             ELSE IF MatchLeadingPack(s) THEN RunText(s, 1) \o Suffix_pieces
             ELSE IF SearchCountUnit(s, {W_pieces, W_pcs, W_piece}) # 0
               THEN RunText(s, SearchCountUnit(s, {W_pieces, W_pcs, W_piece}))
                    \o Suffix_pieces
             ELSE IF IsDigitStr(s) THEN s \o Suffix_pieces
             ELSE s

\* _parse_uom_string
parse_uom_string(s0) ==
    IF s0 = W_2_combo_raw THEN W_2_combo
    ELSE LET s == ReplaceIPack(s0)
             j == SearchPackParen(s)
         IN  IF j # 0 THEN RunText(s, SkipSpaces(s, j + 1)) \o Suffix_pieces
             ELSE IF MatchLeadingPack(s) THEN RunText(s, 1) \o Suffix_pieces
             ELSE IF SearchCountUnit(s, {W_pieces, W_pcs, W_piece}) # 0
               THEN RunText(s, SearchCountUnit(s, {W_pieces, W_pcs, W_piece}))
                    \o Suffix_pieces
             ELSE IF SearchCountUnit(s, {W_g}) # 0
               THEN RunText(s, SearchCountUnit(s, {W_g})) \o Suffix_g
             ELSE IF SearchCountUnit(s, {W_ml}) # 0
               THEN RunText(s, SearchCountUnit(s, {W_ml})) \o Suffix_ml
             ELSE IF IsDigitStr(s) THEN s \o Suffix_pieces
             ELSE s

\* The index after a word and the whitespace that follows it,
\* r'\w+\s+' matched at p; 0 when it does not match at p.
RECURSIVE WordEnd(_, _)
WordEnd(s, p) ==
    IF p <= Len(s) /\ s[p] \in WordChars THEN WordEnd(s, p + 1) ELSE p
AfterWord(s, p) ==
    IF p >= 1 /\ p <= Len(s) /\ s[p] \in WordChars
       /\ SkipSpaces(s, WordEnd(s, p)) > WordEnd(s, p)
    THEN SkipSpaces(s, WordEnd(s, p)) ELSE 0

\* r'(\d+)\s+(?:(?:\w+\s+){0,3})eggs' matches s with group 1 starting at b.
EggsAfter(s, b) ==
    LET e  == DigitRunEnd(s, b)
        p0 == SkipSpaces(s, e + 1)
        p1 == AfterWord(s, p0)
        p2 == AfterWord(s, p1)
        p3 == AfterWord(s, p2)
    IN  /\ p0 > e + 1
        /\ \/ HasAt(s, p0, W_eggs)
           \/ p1 # 0 /\ HasAt(s, p1, W_eggs)
           \/ p1 # 0 /\ p2 # 0 /\ HasAt(s, p2, W_eggs)
           \/ p1 # 0 /\ p2 # 0 /\ p3 # 0 /\ HasAt(s, p3, W_eggs)

\* re.search(r'eggs\s+(\d+)$', s): the start of group 1, 0 when no match.
SearchEggsCount(s) ==
    LET hits == {i \in 1..Len(s) :
                    /\ HasAt(s, i, W_eggs)
                    /\ SkipSpaces(s, i + 4) > i + 4
                    /\ SkipSpaces(s, i + 4) <= Len(s)
                    /\ s[SkipSpaces(s, i + 4)] \in Digits
                    /\ DigitRunEnd(s, SkipSpaces(s, i + 4)) = Len(s)}
    IN  IF hits = {} THEN 0 ELSE SkipSpaces(s, MinOf(hits) + 4)

\* _extract_count_from_name: the count, None when the name holds none.
extract_count_from_name(text) ==
    LET s  == StrLower(Str(text))
        b1 == SearchCountUnit(s, {W_pc, W_pcs, W_piece, W_pieces})
        h2 == {b \in RunStarts(s) : EggsAfter(s, b)}
        b3 == SearchEggsCount(s)
    IN  IF b1 # 0 THEN IntOf(s, b1, DigitRunEnd(s, b1))
        ELSE IF h2 # {} THEN IntOf(s, MinOf(h2), DigitRunEnd(s, MinOf(h2)))
        ELSE IF b3 # 0 THEN IntOf(s, b3, DigitRunEnd(s, b3))
        ELSE None

\* normalize(uom_val, item_name)
normalize(uom_val, item_name) ==
    LET s_uom == StrLower(StrStrip(Str(uom_val)))
        normalized_uom   == parse_uom_string(s_uom)
        is_weight_or_vol == \E x \in {Suffix_g, Suffix_ml, Suffix_kg, Suffix_l} :
                                Contains(normalized_uom, x)
        is_missing       == normalized_uom \in {<<>>, W_nan, W_unknown}
        count_from_name  == extract_count_from_name(item_name)
    IN  IF (is_weight_or_vol \/ is_missing) /\ Truthy(item_name)
           /\ count_from_name # None /\ count_from_name # 0
        THEN IntStr(count_from_name) \o Suffix_pieces
        ELSE normalized_uom

\* ------------------------------------------------ MatchingEngine: _prep_data

\* clean_str(x): str(x).lower().strip()
clean_str(x) == StrStrip(StrLower(Str(x)))

t1_cities ==
    {<<"b", "a", "n", "g", "a", "l", "o", "r", "e">>,
     <<"c", "h", "e", "n", "n", "a", "i">>,
     <<"d", "e", "l", "h", "i">>,
     <<"f", "a", "r", "i", "d", "a", "b", "a", "d">>,
     <<"g", "u", "r", "g", "a", "o", "n">>,
     <<"h", "y", "d", "e", "r", "a", "b", "a", "d">>,
     <<"k", "o", "l", "k", "a", "t", "a">>,
     <<"m", "u", "m", "b", "a", "i">>,
     <<"n", "o", "i", "d", "a">>,
     <<"p", "u", "n", "e">>}

\* city_state_map, as the set of its (city, state) pairs.
city_state_map ==
    {<<<<"b", "a", "n", "g", "a", "l", "o", "r", "e">>,
       <<"k", "a", "r", "n", "a", "t", "a", "k", "a">>>>,
     <<<<"m", "y", "s", "o", "r", "e">>,
       <<"k", "a", "r", "n", "a", "t", "a", "k", "a">>>>,
     <<<<"m", "a", "n", "g", "a", "l", "o", "r", "e">>,
       <<"k", "a", "r", "n", "a", "t", "a", "k", "a">>>>,
     <<<<"c", "h", "e", "n", "n", "a", "i">>,
       <<"t", "a", "m", "i", "l", " ", "n", "a", "d", "u">>>>,
     <<<<"c", "o", "i", "m", "b", "a", "t", "o", "r", "e">>,
       <<"t", "a", "m", "i", "l", " ", "n", "a", "d", "u">>>>,
     <<<<"m", "a", "d", "u", "r", "a", "i">>,
       <<"t", "a", "m", "i", "l", " ", "n", "a", "d", "u">>>>,
     <<<<"h", "y", "d", "e", "r", "a", "b", "a", "d">>,
       <<"t", "e", "l", "a", "n", "g", "a", "n", "a">>>>,
     <<<<"w", "a", "r", "a", "n", "g", "a", "l">>,
       <<"t", "e", "l", "a", "n", "g", "a", "n", "a">>>>,
     <<<<"v", "i", "z", "a", "g">>,
       <<"a", "n", "d", "h", "r", "a", " ", "p", "r", "a", "d", "e", "s", "h">>>>,
     <<<<"m", "u", "m", "b", "a", "i">>,
       <<"m", "a", "h", "a", "r", "a", "s", "h", "t", "r", "a">>>>,
     <<<<"p", "u", "n", "e">>,
       <<"m", "a", "h", "a", "r", "a", "s", "h", "t", "r", "a">>>>,
     <<<<"n", "a", "g", "p", "u", "r">>,
       <<"m", "a", "h", "a", "r", "a", "s", "h", "t", "r", "a">>>>,
     <<<<"d", "e", "l", "h", "i">>,
       <<"d", "e", "l", "h", "i">>>>,
     <<<<"n", "o", "i", "d", "a">>,
       <<"u", "t", "t", "a", "r", " ", "p", "r", "a", "d", "e", "s", "h">>>>,
     <<<<"g", "u", "r", "g", "a", "o", "n">>,
       <<"h", "a", "r", "y", "a", "n", "a">>>>,
     <<<<"k", "o", "l", "k", "a", "t", "a">>,
       <<"w", "e", "s", "t", " ", "b", "e", "n", "g", "a", "l">>>>,
     <<<<"a", "h", "m", "e", "d", "a", "b", "a", "d">>,
       <<"g", "u", "j", "a", "r", "a", "t">>>>,
     <<<<"j", "a", "i", "p", "u", "r">>,
       <<"r", "a", "j", "a", "s", "t", "h", "a", "n">>>>}

W_state_unknown == <<"u", "n", "k", "n", "o", "w", "n">>

city_tier_of(city_clean) == IF city_clean \in t1_cities THEN "T1" ELSE "T2"

\* im_df['city_clean'].map(city_state_map).fillna('unknown')
state_of(city_clean) ==
    IF \E e \in city_state_map : e[1] = city_clean
    THEN (CHOOSE e \in city_state_map : e[1] = city_clean)[2]
    ELSE W_state_unknown

W_Duck == <<"D", "u", "c", "k">>
W_Quail == <<"Q", "u", "a", "i", "l">>
W_Brown == <<"B", "r", "o", "w", "n">>
W_White == <<"W", "h", "i", "t", "e">>

\* get_egg_type(name)
get_egg_type(name) ==
    LET s == StrLower(Str(name))
    IN  IF Contains(s, <<"d", "u", "c", "k">>) THEN W_Duck
        ELSE IF Contains(s, <<"q", "u", "a", "i", "l">>) THEN W_Quail
        ELSE IF \E x \in {<<"b", "r", "o", "w", "n">>,
                         <<"d", "e", "s", "i">>,
                         <<"c", "o", "u", "n", "t", "r", "y">>} : Contains(s, x)
             THEN W_Brown
        ELSE W_White

\* re.sub(r'\bw\b', '', s): s without the occurrences of w as a whole word.
IsWordAt(s, i, w) ==
    /\ HasAt(s, i, w)
    /\ (i = 1 \/ s[i - 1] \notin WordChars)
    /\ (i + Len(w) > Len(s) \/ s[i + Len(w)] \notin WordChars)
RemoveWord(s, w) ==
    LET cut == {k \in 1..Len(s) : \E i \in 1..k : IsWordAt(s, i, w) /\ k < i + Len(w)}
        F[n \in 0..Len(s)] ==
            IF n = 0 THEN <<>>
            ELSE IF n \in cut THEN F[n - 1] ELSE Append(F[n - 1], s[n])
    IN  F[Len(s)]

\* get_brand_key(s)
get_brand_key(x) ==
    StrStrip(
      RemoveWord(RemoveWord(RemoveWord(RemoveWord(RemoveWord(RemoveWord(
        clean_str(x),
        <<"e", "g", "g", "s">>), <<"e", "g", "g">>),
        <<"f", "a", "r", "m", "s">>), <<"f", "a", "r", "m">>),
        <<"f", "o", "o", "d", "s">>),
        <<"p", "o", "u", "l", "t", "r", "y">>))

opp_codes ==
    {833000, 11962, 548512, 56620, 35213, 11174, 11173, 51950, 11966,
     428785, 12341, 12490, 78360, 691733, 744712, 16886, 13422, 604104,
     24379, 14043, 716088, 709061, 697269, 630903, 558087, 124058, 478620,
     890035, 438327, 141942, 11897, 11961, 370525, 548855, 839302, 303428,
     498900, 923763, 995731, 445831, 776284, 6881, 193321}

\* The pack_size column: the first number in uom_clean, 1.0 when it has none.
pack_size_of(uom_clean) == Fillna(ExtractNumber(uom_clean), 1)

\* pd.to_numeric(MRP).fillna(0).round(0)
mrp_int_of(mrp) == Round0(Fillna(mrp, 0))

\* The columns _prep_data adds to a product row (before the COGS merge).
prep_im_row(row) ==
    LET city_clean == clean_str(row.CITY)
        uom_clean  == clean_str(row.Normalized_UOM)
    IN  [city_clean |-> city_clean,
         uom_clean  |-> uom_clean,
         pack_size  |-> pack_size_of(uom_clean),
         city_tier  |-> city_tier_of(city_clean),
         state      |-> state_of(city_clean),
         mrp_int    |-> mrp_int_of(row.MRP),
         egg_type   |-> get_egg_type(row.ITEM_NAME),
         brand_key  |-> get_brand_key(row.BRAND),
         is_opp     |-> row.ITEM_CODE \in opp_codes] @@ row

\* price_per_piece <= 10, for price_per_piece = selling_price / pack_size in
\* float arithmetic (x / 0 is inf, -inf or nan).
price_per_piece_le_10(selling_price, pack_size) ==
    /\ ~IsNaN(selling_price)
    /\ IF pack_size > 0 THEN selling_price <= 10 * Unit * pack_size
       ELSE selling_price < 0

\* The columns _prep_data adds to a competitor row.
prep_comp_row(row) ==
    LET uom_clean == clean_str(row.Normalized_UOM)
    IN  [city_clean  |-> clean_str(row.city),
         uom_clean   |-> uom_clean,
         pack_size   |-> pack_size_of(uom_clean),
         in_opp_pool |-> price_per_piece_le_10(row.selling_price,
                                               pack_size_of(uom_clean)),
         mrp_int     |-> mrp_int_of(row.mrp),
         egg_type    |-> get_egg_type(row.product_name),
         brand_clean |-> clean_str(row.brand_name),
         brand_key   |-> get_brand_key(clean_str(row.brand_name))] @@ row

\* Mutant of prep_cogs_row: a table that has no COGS column any more (a second
\* call on the same table) loses its costs.
prep_cogs_row_second_call_loses_cost(row) ==
    [city_clean  |-> clean_str(row.CITY),
     COGS_LATEST |-> IF "COGS" \in DOMAIN row THEN row.COGS ELSE NaN]
    @@ [c \in DOMAIN row \ {"COGS"} |-> row[c]]

\* What _prep_data does to the caller's cogs_df, in place: a city_clean column
\* and COGS renamed to COGS_LATEST.
prep_cogs_row(row) ==
    LET renamed == IF "COGS" \in DOMAIN row
                   THEN [COGS_LATEST |-> row.COGS]
                        @@ [c \in DOMAIN row \ {"COGS"} |-> row[c]]
                   ELSE row
    IN  [city_clean |-> clean_str(row.CITY)] @@ renamed

\* pd.merge(im_df, cogs_df[['ITEM_CODE', 'city_clean', 'COGS_LATEST']],
\*          on ['ITEM_CODE', 'city_clean'], how='left'), then fillna(0).
merge_cogs(im, cogs) ==
    LeftMerge(im, cogs,
              LAMBDA l, r : l.ITEM_CODE = r.ITEM_CODE /\ l.city_clean = r.city_clean,
              LAMBDA l, r : [COGS_LATEST |-> Fillna(r.COGS_LATEST, 0)] @@ l,
              LAMBDA l : [COGS_LATEST |-> 0] @@ l)

\* ------------------------------------------ MatchingEngine: normalization

\* _normalize_im, per row.
normalize_im_row(row) ==
    [Normalized_UOM |-> normalize(row.UOM, row.ITEM_NAME)] @@ row

\* _normalize_comp, per row.
normalize_comp_row(row) ==
    [Normalized_UOM |-> normalize(row.uom, row.product_name)] @@ row

\* --------------------------------------------- MatchingEngine: exclusions

W_underscore == <<"_">>

\* The columns _apply_exclusions adds to the caller's exclusion table.
excl_row(row) ==
    LET city_clean  == clean_str(row.CITY)
        brand_clean == clean_str(row.BRAND)
    IN  [city_clean |-> city_clean, brand_clean |-> brand_clean,
         key |-> city_clean \o W_underscore \o brand_clean] @@ row

\* The columns _apply_exclusions adds to the competitor table.
excl_comp_row(row) ==
    LET city_clean  == clean_str(row.city)
        brand_clean == clean_str(row.brand_name)
    IN  [city_clean |-> city_clean, brand_clean |-> brand_clean,
         key |-> city_clean \o W_underscore \o brand_clean] @@ row

\* comp_df[~comp_df['key'].isin(excl_df['key'])]
apply_exclusions(comp, excl) ==
    SelectSeq([i \in 1..Len(comp) |-> excl_comp_row(comp[i])],
              LAMBDA c : \A k \in 1..Len(excl) : excl_row(excl[k]).key # c.key)

\* ---------------------------------------------- MatchingEngine: _match_opp

\* The key of groupby(['city_clean', 'uom_clean', 'egg_type']).
GroupKey(row) == <<row.city_clean, row.uom_clean, row.egg_type>>

\* The order in which groupby yields its keys: ascending, column by column.
GroupKeyLess(a, b) ==
    \/ StrLess(a[1], b[1])
    \/ a[1] = b[1] /\ StrLess(a[2], b[2])
    \/ a[1] = b[1] /\ a[2] = b[2] /\ StrLess(a[3], b[3])

\* im_opp = im_df[im_df['is_opp']]
im_opp_of(im) == SelectSeq(im, LAMBDA r : r.is_opp)

\* comp_opp_pool = comp_df[comp_df['price_per_piece'] <= 10]
comp_opp_pool_of(comp) == SelectSeq(comp, LAMBDA r : r.in_opp_pool)

\* The group keys of im_opp, in the order of the loop.
opp_group_keys(im) ==
    LET keys == {GroupKey(im[i]) : i \in {j \in 1..Len(im) : im[j].is_opp}}
    IN  SortSeq(CHOOSE q \in [1..Cardinality(keys) -> keys] :
                    \A k \in keys : \E i \in 1..Cardinality(keys) : q[i] = k,
                GroupKeyLess)

\* Mutant of keeps: an observation at exactly 1.05 x the last kept price is
\* dropped.
keeps_strictly_above(selling_price, last_price) ==
    selling_price * 100 > last_price * 105

\* r['selling_price'] >= last_price * 1.05, in exact arithmetic.
keeps(selling_price, last_price) ==
    selling_price * 100 >= last_price * 105

\* Mutant of spaced_subsequence: no observation is dropped.
spaced_subsequence_all_kept(comp) == comp

\* The 5% spacing rule: the loop over sub_comp, from last_price = 0.
spaced_subsequence(comp) ==
    LET F[n \in 0..Len(comp)] ==
            IF n = 0 THEN [valid_comp |-> <<>>, last_price |-> 0]
            ELSE IF keeps(comp[n].selling_price, F[n - 1].last_price)
                 THEN [valid_comp |-> Append(F[n - 1].valid_comp, comp[n]),
                       last_price |-> comp[n].selling_price]
                 ELSE F[n - 1]
    IN  F[Len(comp)].valid_comp

C_opp_not_met_rank == <<"O", "P", "P", " ", "c", "o", "n", "d", "i", "t", "i", "o", "n", " ", "n", "o", "t", " ", "m", "e", "t", ":", " ", "R", "a", "n", "k", " ">>
C_opp_avail_open   == <<" ", ">", " ", "A", "v", "a", "i", "l", " ", "(">>
C_opp_avail_close  == <<")">>
C_opp_match_rank   == <<"O", "P", "P", " ", "M", "a", "t", "c", "h", ":", " ", "R", "a", "n", "k", " ">>

\* The dict res of product i (from 1) of sub_im; a missing Min_Comp_Price
\* (None) and a missing key are both the missing value of the DataFrame.
opp_result(row, i, valid) ==
    IF i <= Len(valid)
    THEN [CITY |-> row.CITY, ITEM_CODE |-> row.ITEM_CODE,
          Min_Comp_Price  |-> valid[i].selling_price,
          Min_Comp_Brand  |-> valid[i].brand_name,
          Min_Comp_Source |-> valid[i].source,
          Match_Logic_Comment |-> C_opp_match_rank \o IntStr(i)]
    ELSE [CITY |-> row.CITY, ITEM_CODE |-> row.ITEM_CODE,
          Min_Comp_Price  |-> NaN,
          Min_Comp_Brand  |-> CellNaN,
          Min_Comp_Source |-> CellNaN,
          Match_Logic_Comment |->
              C_opp_not_met_rank \o IntStr(i) \o C_opp_avail_open
              \o IntStr(Len(valid)) \o C_opp_avail_close]

\* Mutant of opp_results_of: the ranks run from the costliest product down.
opp_results_costliest_first(im, valid) ==
    [i \in 1..Len(im) |-> opp_result(im[Len(im) + 1 - i], i, valid)]

\* The results of one group: one per product of sub_im, by rank.
opp_results_of(im, valid) == [i \in 1..Len(im) |-> opp_result(im[i], i, valid)]

\* ------------------------------------------ MatchingEngine: _match_non_opp

C_exact_uom      == <<"E", "x", "a", "c", "t", " ", "U", "O", "M", " ", "S", "t", "r", "i", "n", "g">>
C_numeric_pack   == <<"N", "u", "m", "e", "r", "i", "c", " ", "P", "a", "c", "k", " ", "S", "i", "z", "e">>
C_non_opp_match  == <<"N", "o", "n", "-", "O", "P", "P", " ", "M", "a", "t", "c", "h", ":", " ">>
C_non_opp_not_met == <<"N", "o", "n", " ", "O", "P", "P", " ", "c", "o", "n", "d", "i", "t", "i", "o", "n", " ", "n", "o", "t", " ", "m", "e", "t">>

\* im_non = im_df[~im_df['is_opp']]
im_non_of(im) == SelectSeq(im, LAMBDA r : ~r.is_opp)

\* A row of m1 or m2, with the columns that are read afterwards.
candidate(l, r, comment, prio) ==
    [CITY |-> l.CITY, ITEM_CODE |-> l.ITEM_CODE,
     selling_price |-> r.selling_price, brand_name |-> r.brand_name,
     source |-> r.source, comment |-> comment, prio |-> prio]

\* m1: the inner merge on ['city_clean', 'brand_key', 'uom_clean', 'mrp_int'].
exact_uom_matches(im_non, comp) ==
    InnerMerge(im_non, comp,
               LAMBDA l, r : /\ l.city_clean = r.city_clean
                             /\ l.brand_key = r.brand_key
                             /\ l.uom_clean = r.uom_clean
                             /\ l.mrp_int = r.mrp_int,
               LAMBDA l, r : candidate(l, r, C_exact_uom, 1))

\* m2: the inner merge on ['city_clean', 'brand_key', 'pack_size', 'mrp_int'].
pack_size_matches(im_non, comp) ==
    InnerMerge(im_non, comp,
               LAMBDA l, r : /\ l.city_clean = r.city_clean
                             /\ l.brand_key = r.brand_key
                             /\ l.pack_size = r.pack_size
                             /\ l.mrp_int = r.mrp_int,
               LAMBDA l, r : candidate(l, r, C_numeric_pack, 2))

\* a before b in an ascending sort of numbers that puts missing values last.
NumLess(a, b) == ~IsNaN(a) /\ (IsNaN(b) \/ a < b)

\* The order of a sort by ['CITY', 'ITEM_CODE', 'selling_price', 'prio']: the
\* price before the priority of the attempt.
CandidateLess_price_before_prio(a, b) ==
    IF a.CITY # b.CITY THEN StrLess(a.CITY, b.CITY)
    ELSE IF a.ITEM_CODE # b.ITEM_CODE THEN a.ITEM_CODE < b.ITEM_CODE
    ELSE IF a.selling_price # b.selling_price
      THEN NumLess(a.selling_price, b.selling_price)
    ELSE a.prio < b.prio

\* The order of sort_values(['CITY', 'ITEM_CODE', 'prio', 'selling_price']).
CandidateLess(a, b) ==
    IF a.CITY # b.CITY THEN StrLess(a.CITY, b.CITY)
    ELSE IF a.ITEM_CODE # b.ITEM_CODE THEN a.ITEM_CODE < b.ITEM_CODE
    ELSE IF a.prio # b.prio THEN a.prio < b.prio
    ELSE NumLess(a.selling_price, b.selling_price)

\* hits: the first candidate of every (CITY, ITEM_CODE) after the sort.
hits_of(im_non, comp) ==
    DropDuplicates(
        StableSort(exact_uom_matches(im_non, comp) \o pack_size_matches(im_non, comp),
                   CandidateLess),
        LAMBDA c : <<c.CITY, c.ITEM_CODE>>)

\* non_opp_final
match_non_opp(im, comp) ==
    LeftMerge(im_non_of(im), hits_of(im_non_of(im), comp),
              LAMBDA l, h : l.CITY = h.CITY /\ l.ITEM_CODE = h.ITEM_CODE,
              LAMBDA l, h : [CITY |-> l.CITY, ITEM_CODE |-> l.ITEM_CODE,
                             Min_Comp_Price  |-> h.selling_price,
                             Min_Comp_Brand  |-> h.brand_name,
                             Min_Comp_Source |-> h.source,
                             Match_Logic_Comment |-> C_non_opp_match \o h.comment],
              LAMBDA l : [CITY |-> l.CITY, ITEM_CODE |-> l.ITEM_CODE,
                          Min_Comp_Price  |-> NaN,
                          Min_Comp_Brand  |-> CellNaN,
                          Min_Comp_Source |-> CellNaN,
                          Match_Logic_Comment |-> C_non_opp_not_met])

\* -------------------------------------- MatchingEngine: _apply_t2_fallback

C_fallback_used == <<"F", "a", "l", "l", "b", "a", "c", "k", ":", " ", "U", "s", "e", "d", " ">>
C_fallback_t1   == <<" ", "T", "1">>

\* meta = im_df[['ITEM_CODE', 'CITY', 'city_tier', 'state']].drop_duplicates()
meta_of(im) ==
    DropDuplicates([i \in 1..Len(im) |->
                       [ITEM_CODE |-> im[i].ITEM_CODE, CITY |-> im[i].CITY,
                        city_tier |-> im[i].city_tier, state |-> im[i].state]],
                   LAMBDA m : m)

\* df_work = pd.merge(all_matches, meta, on=['ITEM_CODE', 'CITY'], how='left')
df_work_of(all_matches, im) ==
    LeftMerge(all_matches, meta_of(im),
              LAMBDA l, m : l.ITEM_CODE = m.ITEM_CODE /\ l.CITY = m.CITY,
              LAMBDA l, m : [city_tier |-> m.city_tier, state |-> m.state] @@ l,
              LAMBDA l : [city_tier |-> "nan", state |-> CellNaN] @@ l)

\* The rows of a T1 lookup table that also holds the T1 rows without a
\* positive price.
t1_rows_unmatched_too(df_work) ==
    SelectSeq(df_work, LAMBDA r : r.city_tier = "T1")

\* The rows the T1 lookup table is built from.
t1_rows(df_work) ==
    SelectSeq(df_work, LAMBDA r : r.city_tier = "T1" /\ Gt(r.Min_Comp_Price, 0))

\* apply_fallback(r), for the lookup table given by its rows.
apply_fallback(r, t1_lookup) ==
    LET hit(d) == d.state = r.state /\ d.ITEM_CODE = r.ITEM_CODE
        found  == {k \in 1..Len(t1_lookup) : hit(t1_lookup[k])}
        d      == t1_lookup[CHOOSE k \in found : TRUE]
        out    == IF /\ r.city_tier = "T2"
                     /\ (IsNaN(r.Min_Comp_Price) \/ r.Min_Comp_Price <= 0)
                     /\ found # {}
                  THEN [Min_Comp_Price  |-> d.Min_Comp_Price,
                        Min_Comp_Brand  |-> d.Min_Comp_Brand,
                        Min_Comp_Source |-> d.Min_Comp_Source,
                        Match_Logic_Comment |->
                            C_fallback_used \o StrTitle(Str(r.state)) \o C_fallback_t1]
                       @@ r
                  ELSE r
    IN  [CITY |-> out.CITY, ITEM_CODE |-> out.ITEM_CODE,
         Min_Comp_Price  |-> out.Min_Comp_Price,
         Min_Comp_Brand  |-> out.Min_Comp_Brand,
         Min_Comp_Source |-> out.Min_Comp_Source,
         Match_Logic_Comment |-> out.Match_Logic_Comment]

\* ------------------------------------- MatchingEngine: the merge to master

\* pd.merge(im_df, final_matches, on=['CITY', 'ITEM_CODE'], how='left') and
\* Min_Comp_Price.fillna(0).
merge_matches(im, final_matches) ==
    LeftMerge(im, final_matches,
              LAMBDA l, m : l.CITY = m.CITY /\ l.ITEM_CODE = m.ITEM_CODE,
              LAMBDA l, m : [Min_Comp_Price  |-> Fillna(m.Min_Comp_Price, 0),
                             Min_Comp_Brand  |-> m.Min_Comp_Brand,
                             Min_Comp_Source |-> m.Min_Comp_Source,
                             Match_Logic_Comment |-> m.Match_Logic_Comment] @@ l,
              LAMBDA l : [Min_Comp_Price  |-> 0,
                          Min_Comp_Brand  |-> CellNaN,
                          Min_Comp_Source |-> CellNaN,
                          Match_Logic_Comment |-> CellNaN] @@ l)

\* ------------------------------------------------ run_matching, by stage
\* inputs holds the caller's tables: im, comp, cogs, excl, stock, gmv, sdpo.
\* An exclusion, stock, revenue-weight or brand-discount table that is None is
\* held as the empty table: the code takes the same branch for both.

\* Step 1: im_df = self._normalize_im(im_df); comp_df = self._normalize_comp(comp_df)
NormalizeUom ==
    /\ pc = "start"
    /\ im_df' = MapRows(normalize_im_row, inputs.im)
    /\ comp_df' = MapRows(normalize_comp_row, inputs.comp)
    /\ pc' = "normalized"
    /\ UNCHANGED <<inputs, todo, sub_im, sub_comp, valid_comp, matches, df,
                   target_margin_override, first_run>>

\* Step 2: comp_df = self._apply_exclusions(comp_df, exclusion_df), which
\* writes its key columns into the caller's exclusion table.
ApplyExclusions ==
    /\ pc = "normalized"
    /\ Len(inputs.excl) > 0
    /\ comp_df' = apply_exclusions(comp_df, inputs.excl)
    /\ inputs' = [inputs EXCEPT !.excl = MapRows(excl_row, @)]
    /\ pc' = "excluded"
    /\ UNCHANGED <<im_df, todo, sub_im, sub_comp, valid_comp, matches, df,
                   target_margin_override, first_run>>

\* Step 3: im_df, comp_df = self._prep_data(im_df, comp_df, cogs_df), which
\* renames COGS and adds city_clean in the caller's cogs table.
PrepData ==
    /\ pc = IF Len(inputs.excl) > 0 THEN "excluded" ELSE "normalized"
    /\ inputs' = [inputs EXCEPT !.cogs = MapRows(prep_cogs_row, @)]
    /\ im_df' = merge_cogs(MapRows(prep_im_row, im_df), inputs'.cogs)
    /\ comp_df' = MapRows(prep_comp_row, comp_df)
    /\ pc' = "prepared"
    /\ UNCHANGED <<todo, sub_im, sub_comp, valid_comp, matches, df,
                   target_margin_override, first_run>>

\* Step 4, _match_opp up to its loop: the groups of im_opp, opp_results = [].
MatchOppBegin ==
    /\ pc = "prepared"
    /\ todo' = opp_group_keys(im_df)
    /\ matches' = <<>>
    /\ pc' = "match_opp"
    /\ UNCHANGED <<inputs, im_df, comp_df, sub_im, sub_comp, valid_comp, df,
                   target_margin_override, first_run>>

\* One turn of the loop of _match_opp: the next group, its products sorted by
\* COGS_LATEST, its pool rows sorted by selling_price (either sort may order
\* equal values in any way), the spacing rule, and one result per product.
MatchOppGroup ==
    /\ pc = "match_opp"
    /\ todo # <<>>
    /\ \E by_cost \in SortedOrders(
              SelectSeq(im_opp_of(im_df), LAMBDA r : GroupKey(r) = Head(todo)),
              LAMBDA r : r.COGS_LATEST),
          by_price \in SortedOrders(
              SelectSeq(comp_opp_pool_of(comp_df), LAMBDA r : GroupKey(r) = Head(todo)),
              LAMBDA r : r.selling_price) :
          /\ sub_im' = by_cost
          /\ sub_comp' = by_price
          /\ valid_comp' = spaced_subsequence(by_price)
          /\ matches' = matches \o opp_results_of(by_cost, valid_comp')
    /\ todo' = Tail(todo)
    /\ UNCHANGED <<pc, inputs, im_df, comp_df, df, target_margin_override,
                   first_run>>

\* Step 4, _match_non_opp; matches becomes all_matches, the concatenation of
\* the two results that _apply_t2_fallback starts from.
MatchNonOpp ==
    /\ pc = "match_opp"
    /\ todo = <<>>
    /\ matches' = matches \o match_non_opp(im_df, comp_df)
    /\ pc' = "match_non_opp"
    /\ UNCHANGED <<inputs, im_df, comp_df, todo, sub_im, sub_comp, valid_comp, df,
                   target_margin_override, first_run>>

\* Step 5: final_matches = self._apply_t2_fallback(...).  The lookup table
\* keeps, per (state, ITEM_CODE), the first row of a sort by price that may
\* order equal prices in any way.
ApplyT2Fallback ==
    /\ pc = "match_non_opp"
    /\ \E by_price \in SortedOrders(t1_rows(df_work_of(matches, im_df)),
                                    LAMBDA r : r.Min_Comp_Price) :
          matches' = MapRows(
              LAMBDA r : apply_fallback(
                  r, DropDuplicates(by_price, LAMBDA d : <<d.state, d.ITEM_CODE>>)),
              df_work_of(matches, im_df))
    /\ pc' = "t2_fallback"
    /\ UNCHANGED <<inputs, im_df, comp_df, todo, sub_im, sub_comp, valid_comp, df,
                   target_margin_override, first_run>>

\* Step 6: the merge back to the master and the return of run_matching.
MergeMatches ==
    /\ pc = "t2_fallback"
    /\ df' = merge_matches(im_df, matches)
    /\ pc' = "matched"
    /\ UNCHANGED <<matching_vars, target_margin_override, first_run>>

\* ------------------------------------------------ PricingEngine: merges

\* clean_key(city, item)
clean_key(city, item) ==
    StrStrip(StrLower(Str(city))) \o W_underscore
    \o (IF IsNaN(item) THEN <<"0">> ELSE IntStr(item))

\* The column _merge_stock adds to the caller's stock table.
stock_row(row) == [key |-> clean_key(row.CITY, row.ITEM_CODE)] @@ row

\* _merge_stock
merge_stock(t, stock) ==
    IF Len(stock) = 0
    THEN MapRows(LAMBDA r : [STOCK_STATUS |-> W_NA] @@ r, t)
    ELSE LeftMerge(MapRows(LAMBDA r : [key |-> clean_key(r.CITY, r.ITEM_CODE)] @@ r, t),
                   DropDuplicates(MapRows(stock_row, stock), LAMBDA r : r.key),
                   LAMBDA l, r : l.key = r.key,
                   LAMBDA l, r : [STOCK_STATUS |->
                                     IF r.STOCK_STATUS \in {CellNaN, CellNone}
                                     THEN W_NA ELSE r.STOCK_STATUS] @@ l,
                   LAMBDA l : [STOCK_STATUS |-> W_NA] @@ l)

\* _merge_gmv
merge_gmv(t, gmv) ==
    IF Len(gmv) = 0
    THEN MapRows(LAMBDA r : [GMV_Contribution |-> 0] @@ r, t)
    ELSE LeftMerge(t, gmv,
                   LAMBDA l, r : l.ITEM_CODE = r.ITEM_CODE,
                   LAMBDA l, r : [GMV_Contribution |-> Fillna(r.GMV_Contribution, 0)] @@ l,
                   LAMBDA l : [GMV_Contribution |-> 0] @@ l)

\* The columns _merge_brand_sdpo adds to the caller's brand table;
\* Fixed_SDPO_Pct is held in percent.
sdpo_row(row) ==
    [Brand_Clean    |-> StrStrip(StrLower(Str(row.Brand))),
     Fixed_SDPO_Pct |-> Fillna(row.Hardcoded_SDPO, 0)] @@ row

\* _merge_brand_sdpo
merge_brand_sdpo(t, sdpo) ==
    IF Len(sdpo) = 0
    THEN MapRows(LAMBDA r : [Fixed_SDPO_Pct |-> 0] @@ r, t)
    ELSE LeftMerge(MapRows(LAMBDA r : [Brand_Clean |-> StrStrip(StrLower(Str(r.BRAND)))] @@ r, t),
                   MapRows(sdpo_row, sdpo),
                   LAMBDA l, r : l.Brand_Clean = r.Brand_Clean,
                   LAMBDA l, r : [Fixed_SDPO_Pct |-> r.Fixed_SDPO_Pct] @@ l,
                   LAMBDA l : [Fixed_SDPO_Pct |-> 0] @@ l)

\* df = self._merge_stock(df, stock_df)
MergeStock ==
    /\ pc = "matched"
    /\ df' = merge_stock(df, inputs.stock)
    /\ inputs' = [inputs EXCEPT !.stock = MapRows(stock_row, @)]
    /\ pc' = "stock"
    /\ UNCHANGED <<im_df, comp_df, todo, sub_im, sub_comp, valid_comp, matches,
                   target_margin_override, first_run>>

\* df = self._merge_gmv(df, gmv_df)
MergeGmv ==
    /\ pc = "stock"
    /\ df' = merge_gmv(df, inputs.gmv)
    /\ pc' = "gmv"
    /\ UNCHANGED <<matching_vars, target_margin_override, first_run>>

\* df = self._merge_brand_sdpo(df, brand_sdpo_df)
MergeBrandSdpo ==
    /\ pc = "gmv"
    /\ df' = merge_brand_sdpo(df, inputs.sdpo)
    /\ inputs' = [inputs EXCEPT !.sdpo = MapRows(sdpo_row, @)]
    /\ pc' = "brand_sdpo"
    /\ UNCHANGED <<im_df, comp_df, todo, sub_im, sub_comp, valid_comp, matches,
                   target_margin_override, first_run>>

\* -------------------------------------------------- PricingEngine: KVI tiers

\* pack_category from the number in Normalized_UOM (1 when it has none).
pack_category_of(row) ==
    LET pack_n == Fillna(ExtractNumber(row.Normalized_UOM), 1)
    IN  IF pack_n \in {30, 24, 25, 20} THEN "Large"
        ELSE IF pack_n \in {10, 12, 15, 18} THEN "Mid"
        ELSE IF pack_n \in {6, 4} THEN "Small"
        ELSE "Other"

\* Rows i and j of t are in the same (CITY, pack_category) group.
SameKviGroup(t, i, j) ==
    /\ t[i].CITY = t[j].CITY
    /\ pack_category_of(t[i]) = pack_category_of(t[j])

\* groupby(['CITY', 'pack_category'])['GMV Contribution'].cumsum() at row i:
\* the sum over the rows of i's group from the first row of the table to row i,
\* in the row order of the table.
RECURSIVE GroupSumUpTo(_, _, _)
GroupSumUpTo(t, i, n) ==
    IF n = 0 THEN 0
    ELSE GroupSumUpTo(t, i, n - 1)
         + (IF SameKviGroup(t, i, n) THEN t[n].GMV_Contribution ELSE 0)

\* A cumulative sum that leaves out the row's own weight.
kvi_cum_before_row(t, i) == GroupSumUpTo(t, i, i - 1)

kvi_cum(t, i) == GroupSumUpTo(t, i, i)

\* groupby(...)['GMV Contribution'].transform('sum') at row i.
kvi_tot(t, i) == GroupSumUpTo(t, i, Len(t))

\* kvi_tier of row i without the last assignment, Tier 3 for the rows with
\* GMV Contribution == 0.
kvi_tier_of_share_only(t, i) ==
    LET cum == kvi_cum(t, i)
        tot == IF kvi_tot(t, i) = 0 THEN 1 ELSE kvi_tot(t, i)
    IN  IF cum * 100 <= 80 * tot THEN "Tier 1"
        ELSE IF cum * 100 <= 95 * tot THEN "Tier 2"
        ELSE "Tier 3"

\* kvi_tier of row i: Pareto 80 / 95 on cum / tot.replace(0, 1); rows with
\* GMV Contribution == 0 are Tier 3.
kvi_tier_of(t, i) ==
    LET cum == kvi_cum(t, i)
        tot == IF kvi_tot(t, i) = 0 THEN 1 ELSE kvi_tot(t, i)
    IN  IF t[i].GMV_Contribution = 0 THEN "Tier 3"
        ELSE IF cum * 100 <= 80 * tot THEN "Tier 1"
        ELSE IF cum * 100 <= 95 * tot THEN "Tier 2"
        ELSE "Tier 3"

\* _calculate_kvi_tiers
calculate_kvi_tiers(t) ==
    [i \in 1..Len(t) |->
        [pack_category |-> pack_category_of(t[i]),
         kvi_tier      |-> kvi_tier_of(t, i)] @@ t[i]]

\* ------------------------------------------- PricingEngine: target margins

\* get_target(row): the target net margin, in percent.
get_target(row) ==
    LET p   == row.pack_category
        k   == row.kvi_tier
        t2  == (row.city_tier = "T2")
        opp == row.is_opp
        t   == IF p \in {"Small", "Mid"}
                 THEN (IF k = "Tier 1" THEN (IF opp THEN 10 ELSE 17)
                                       ELSE (IF opp THEN 11 ELSE 20))
               ELSE IF p = "Large"
                 THEN (IF k = "Tier 1" THEN (IF opp THEN 5 ELSE 15)
                                       ELSE (IF opp THEN 6 ELSE 18))
               ELSE 15
        u   == IF t2 THEN t - 5 ELSE t
    IN  IF u > 0 THEN u ELSE 0

\* _calculate_target_margins, per row: the override replaces the lookup.
target_margin_row(row) ==
    [target_nm |-> IF target_margin_override # None
                     THEN target_margin_override
                     ELSE get_target(row)] @@ row

\* ------------------------------------------------- PricingEngine: prices

\* get_bdpo(row): the brand discount amount.  BDPO is absent (no column or an
\* empty cell), a percentage of MRP ("5%"), or an absolute amount.
get_bdpo(row) ==
    LET mrp == row.MRP
        b   == IF "BDPO" \in DOMAIN row THEN row.BDPO ELSE [kind |-> "none", val |-> 0]
        val == IF b.kind = "pct" THEN MulPct(mrp, b.val)
               ELSE IF b.kind = "abs" THEN b.val
               ELSE 0
    IN  IF Gt(val, 0) THEN PyMin(val, MulPct(mrp, 90)) ELSE 0

\* The value of df[mop_col]: the MOP column, or the cogs column when the
\* table has no MOP column.
mop_of(row, cogs) == IF "MOP" \in DOMAIN row THEN row.MOP ELSE cogs

\* is_insufficient without the test of the city tier: every row whose stock
\* status is 'insufficient'.
is_insufficient_any_city(row) ==
    StrLower(Str(row.STOCK_STATUS)) = W_insufficient

\* is_insufficient: T2 city and stock status 'insufficient'.
is_insufficient(row) ==
    row.city_tier = "T2" /\ StrLower(Str(row.STOCK_STATUS)) = W_insufficient

\* The 2% undercut price, price_comp * 0.98.
price_aggressive(price_comp) == MulPct(price_comp, 98)

\* The brand-rule price, MRP * (1 - Fixed_SDPO_Pct) - bdpo_val.
price_fixed_brand(row, bdpo_val) ==
    Sub(MulPct(row.MRP, 100 - row.Fixed_SDPO_Pct), bdpo_val)

\* _calculate_prices, per row.
calculate_prices_row(row) ==
    LET bdpo_val == Fillna(get_bdpo(row), 0)
        cogs0    == row.COGS_LATEST
        cogs     == IF cogs0 = 0 THEN mop_of(row, cogs0) ELSE cogs0
        pmm0     == Sub(Add(MulPct(row.MRP, row.target_nm), cogs), bdpo_val)
        pc0      == IF Gt(row.Min_Comp_Price, 0) THEN row.Min_Comp_Price ELSE pmm0
        price_min_margin == Fillna(pmm0, row.MRP)
        price_comp       == Fillna(pc0, price_min_margin)
        nm_num   == Add(Sub(price_comp, cogs), bdpo_val)
        nm_den   == Replace01(row.MRP)
        insuff   == is_insufficient(row)
        is_kvi_t1 == row.kvi_tier = "Tier 1"
        has_comp  == Gt(row.Min_Comp_Price, 0)
        is_overdelivering == RatioGt(nm_num, nm_den, row.target_nm)
        is_brand_rule     == row.Fixed_SDPO_Pct > 0
        standard_match    == RatioGe(nm_num, nm_den, row.target_nm) /\ ~insuff
        should_undercut   == is_kvi_t1 /\ has_comp /\ is_overdelivering /\ ~insuff
        m1 == IF standard_match THEN price_comp ELSE price_min_margin
        m2 == IF should_undercut THEN price_aggressive(price_comp) ELSE m1
        m3 == IF is_brand_rule THEN price_fixed_brand(row, bdpo_val) ELSE m2
        a1 == IF insuff THEN "T2 Insufficient: Ignored Comp Match" ELSE ""
        a2 == IF should_undercut THEN "KVI T1 Aggression: Beat Comp by 2%" ELSE a1
        a3 == IF is_brand_rule THEN "Brand Rule: Fixed SDPO" ELSE a2
    IN  [bdpo_val |-> bdpo_val, cogs |-> cogs,
         price_min_margin |-> price_min_margin, price_comp |-> price_comp,
         model_price |-> m3, Stock_Action |-> a3] @@ row

\* ------------------------------------------- PricingEngine: constraints

\* Mutant of ceil_final: the brand discount is added to the branded ceiling
\* instead of subtracted.
ceil_final_bdpo_added(row) ==
    IF row.is_opp THEN MulPct(row.MRP, 96)
    ELSE NpFloor(Add(row.MRP, row.bdpo_val))

\* ceil_final: MRP * 0.96 for OPP, else floor(MRP - bdpo_val).
ceil_final(row) ==
    IF row.is_opp THEN MulPct(row.MRP, 96)
    ELSE NpFloor(Sub(row.MRP, row.bdpo_val))

\* Mutant of constrained_price: the ceiling also caps the brand-rule price.
constrained_price_always_capped(row) ==
    NpMinimum(NpMaximum(row.model_price,
                        IF Gt(mop_of(row, row.cogs), ceil_final(row)) /\ Gt(row.MRP, 0)
                          THEN row.cogs ELSE mop_of(row, row.cogs)),
              ceil_final(row))

\* floor: cogs when MOP conflicts with the ceiling, else the MOP column.
floor_of(row) ==
    LET mop      == mop_of(row, row.cogs)
        conflict == Gt(mop, ceil_final(row)) /\ Gt(row.MRP, 0)
    IN  IF conflict THEN row.cogs ELSE mop

\* model_price after the floor and (unless the brand rule applies) the ceiling.
constrained_price(row) ==
    LET floored == NpMaximum(row.model_price, floor_of(row))
    IN  IF row.Fixed_SDPO_Pct > 0 THEN floored
        ELSE NpMinimum(floored, ceil_final(row))

\* Mutant of modeled_price: the missing-cost fallback spares brand-rule rows.
modeled_price_brand_kept(row) ==
    LET floored == NpMaximum(row.model_price,
                             IF Gt(mop_of(row, row.cogs), ceil_final(row)) /\ Gt(row.MRP, 0)
                               THEN row.cogs ELSE mop_of(row, row.cogs))
    IN  IF Le(row.cogs, 0) /\ row.Fixed_SDPO_Pct = 0 THEN row.MRP
        ELSE Fillna(Round0(IF row.Fixed_SDPO_Pct > 0 THEN floored
                           ELSE NpMinimum(floored, ceil_final(row))), 0)

\* 'Modeled Price' before the minimum of 1: rounded, or MRP when cogs <= 0.
modeled_price(row) ==
    IF Le(row.cogs, 0) THEN row.MRP
    ELSE Fillna(Round0(constrained_price(row)), 0)

\* _apply_constraints, per row.
apply_constraints_row(row) ==
    LET mask_no_cogs == Le(row.cogs, 0)
        final        == NpMaximum(modeled_price(row), Unit)
    IN  [model_price  |-> constrained_price(row),
         Stock_Action |-> IF mask_no_cogs THEN "Fallback: Missing COGS -> MRP"
                          ELSE row.Stock_Action,
         Final_Price  |-> final] @@ row

\* ------------------------------------------------- run_pricing, by stage

\* df = self._calculate_kvi_tiers(df)
CalculateKviTiers ==
    /\ pc = "brand_sdpo"
    /\ df' = calculate_kvi_tiers(df)
    /\ pc' = "kvi_tiers"
    /\ UNCHANGED <<matching_vars, target_margin_override, first_run>>

\* df = self._calculate_target_margins(df, target_margin_override)
CalculateTargetMargins ==
    /\ pc = "kvi_tiers"
    /\ df' = MapRows(target_margin_row, df)
    /\ pc' = "target_margins"
    /\ UNCHANGED <<matching_vars, target_margin_override, first_run>>

\* df = self._calculate_prices(df)
CalculatePrices ==
    /\ pc = "target_margins"
    /\ df' = MapRows(calculate_prices_row, df)
    /\ pc' = "prices"
    /\ UNCHANGED <<matching_vars, target_margin_override, first_run>>

\* df = self._apply_constraints(df)
ApplyConstraints ==
    /\ pc = "prices"
    /\ df' = MapRows(apply_constraints_row, df)
    /\ pc' = "constraints"
    /\ UNCHANGED <<matching_vars, target_margin_override, first_run>>

\* ------------------------------------------------- values of the tables
\* The strings the tables of the specifications below are made of.

S_Delhi       == <<"D", "e", "l", "h", "i">>
S_delhi       == <<"d", "e", "l", "h", "i">>
S_12_pcs      == <<"1", "2", " ", "p", "c", "s">>
S_White_Eggs  == <<"W", "h", "i", "t", "e", " ", "E", "g", "g", "s">>
S_Fresho      == <<"F", "r", "e", "s", "h", "o">>
S_Local       == <<"L", "o", "c", "a", "l">>
S_blinkit     == <<"b", "l", "i", "n", "k", "i", "t">>
S_zepto       == <<"z", "e", "p", "t", "o">>
S_Mysore      == <<"M", "y", "s", "o", "r", "e">>
S_Bangalore   == <<"B", "a", "n", "g", "a", "l", "o", "r", "e">>
S_6_pcs       == <<"6", " ", "p", "c", "s">>
S_Brown_Eggs  == <<"B", "r", "o", "w", "n", " ", "E", "g", "g", "s">>
S_Eggoz       == <<"E", "g", "g", "o", "z">>
S_Eggoz_Farms == <<"E", "g", "g", "o", "z", " ", "F", "a", "r", "m", "s">>
S_6_g         == <<"6", " ", "g">>

\* ---------------------------------------------- the price calculator alone
\* One product row as _calculate_kvi_tiers leaves it, over a grid of values.

MrpValues    == {NaN, 0, 10 * Unit, 21 * (Unit \div 2), 100 * Unit}
CogsValues   == {0 - Unit, 0, 5 * Unit, 19 * (Unit \div 2), 98 * Unit}
MopValues    == {0, 4 * Unit, 12 * Unit}
BdpoValues   == {[kind |-> "none", val |-> 0], [kind |-> "abs", val |-> 2 * Unit],
                 [kind |-> "pct", val |-> 50]}
CompValues   == {0, 101 * (Unit \div 20), 8 * Unit, 12 * Unit}
SdpoValues   == {0, 5, 50}

\* Rows of a product table without MOP and BDPO columns.
PriceRowsPlain ==
    [MRP : MrpValues, COGS_LATEST : CogsValues, Min_Comp_Price : CompValues,
     is_opp : BOOLEAN, city_tier : {"T1", "T2"},
     STOCK_STATUS : {W_NA, W_insufficient},
     kvi_tier : {"Tier 1", "Tier 3"}, pack_category : {"Mid"},
     Fixed_SDPO_Pct : SdpoValues]

\* Rows of a product table with MOP and BDPO columns.
PriceRowsMopBdpo ==
    {[MOP |-> m, BDPO |-> b] @@ r :
        m \in MopValues, b \in BdpoValues, r \in PriceRowsPlain}

\* The variables of run_matching, when only run_pricing is looked at.
NoMatching ==
    /\ inputs = <<>>
    /\ im_df = <<>>
    /\ comp_df = <<>>
    /\ todo = <<>>
    /\ sub_im = <<>>
    /\ sub_comp = <<>>
    /\ valid_comp = <<>>
    /\ matches = <<>>
    /\ first_run = <<>>

InitPrice ==
    /\ pc = "kvi_tiers"
    /\ NoMatching
    /\ target_margin_override = None
    /\ \E r \in PriceRowsPlain \cup PriceRowsMopBdpo : df = <<r>>

NextPrice == CalculateTargetMargins \/ CalculatePrices \/ ApplyConstraints

SpecPrice == InitPrice /\ [][NextPrice]_vars

\* ------------------------------------------------------- claims C2 .. C7
\* All are statements about the rows run_pricing returns (pc = "constraints").

Priced == pc = "constraints"
Rows   == {df[i] : i \in 1..Len(df)}

\* The row has an MRP (not a missing value).
HasMrp(r) == ~IsNaN(r.MRP)

\* C2 (as claimed): every priced product with cost > 0 has Final Price >= cost,
\* here for products whose MRP is present and not below the cost.
C2_FinalPriceAtLeastCost ==
    Priced => \A r \in Rows :
        (r.COGS_LATEST > 0 /\ HasMrp(r) /\ r.MRP >= r.COGS_LATEST)
            => Ge(r.Final_Price, r.COGS_LATEST)

\* C3 (as claimed): a branded product with no fixed discount policy has
\* Final Price <= MRP, whatever its cost, match, tier and stock status.
C3_BrandedAtMostMrp ==
    Priced => \A r \in Rows :
        (~r.is_opp /\ r.Fixed_SDPO_Pct = 0 /\ HasMrp(r))
            => Le(r.Final_Price, r.MRP)

\* C3 (amended): a branded product with no fixed discount policy and an MRP of
\* at least one unit has Final Price <= MRP; with an MRP below one unit the
\* minimum of 1 applies and Final Price = 1.
C3_BrandedAtMostMrpOrOne ==
    Priced => \A r \in Rows :
        (~r.is_opp /\ r.Fixed_SDPO_Pct = 0 /\ HasMrp(r))
            => /\ r.MRP >= Unit => Le(r.Final_Price, r.MRP)
               /\ r.MRP < Unit  => r.Final_Price = Unit

\* C3 witness: a branded product without fixed discount whose competitor price
\* lies above its MRP has been priced at or below the MRP.
C3_Witness ==
    Priced /\ \E r \in Rows :
        /\ ~r.is_opp /\ r.Fixed_SDPO_Pct = 0 /\ HasMrp(r) /\ r.cogs > 0
        /\ r.MRP >= Unit /\ r.Min_Comp_Price > r.MRP
        /\ r.price_comp > r.MRP /\ Le(r.Final_Price, r.MRP)

\* C4 (as claimed): a product without brand fixed discount and with cost > 0 has
\* Final Price <= its ceiling (MRP x 0.96 for OPP, floor(MRP - bdpo) otherwise),
\* also after rounding; here for products with an MRP of at least 10 units.
C4_FinalPriceAtMostCeiling ==
    Priced => \A r \in Rows :
        (r.Fixed_SDPO_Pct = 0 /\ r.cogs > 0 /\ HasMrp(r) /\ r.MRP >= 10 * Unit)
            => Le(r.Final_Price,
                  IF r.is_opp THEN (r.MRP * 96) \div 100
                  ELSE ((r.MRP - r.bdpo_val) \div Unit) * Unit)

\* C5 (as claimed): a product with cost <= 0 has Final Price = MRP and the
\* missing-cost fallback as its action reason.
C5_MissingCostGivesMrp ==
    Priced => \A r \in Rows :
        (r.cogs <= 0 /\ HasMrp(r))
            => /\ r.Final_Price = r.MRP
               /\ r.Stock_Action = "Fallback: Missing COGS -> MRP"

\* C5 (amended): a product with cost <= 0 has the missing-cost fallback as its
\* action reason and Final Price = MRP when MRP is at least one unit, 1 when MRP
\* is below one unit, and no Final Price when the MRP is missing; whatever the
\* match, tier, stock status and brand fixed-discount policy.
C5_MissingCostGivesMrpOrOne ==
    Priced => \A r \in Rows :
        r.cogs <= 0
            => /\ r.Stock_Action = "Fallback: Missing COGS -> MRP"
               /\ r.Final_Price = IF ~HasMrp(r) THEN NaN
                                  ELSE IF r.MRP >= Unit THEN r.MRP ELSE Unit

\* C5 witness: a product with cost <= 0, a brand fixed discount and a competitor
\* match has been priced at its MRP.
C5_Witness ==
    Priced /\ \E r \in Rows :
        /\ r.cogs <= 0 /\ r.Fixed_SDPO_Pct > 0 /\ r.Min_Comp_Price > 0
        /\ HasMrp(r) /\ r.MRP >= Unit /\ r.Final_Price = r.MRP

\* C6 (as claimed): every priced row has a Final Price that is present, a whole
\* number of units and at least 1.
C6_FinalPriceWholeAndAtLeastOne ==
    Priced => \A r \in Rows :
        /\ ~IsNaN(r.Final_Price)
        /\ r.Final_Price >= Unit
        /\ r.Final_Price % Unit = 0

\* The brand policy price MRP x (1 - Fixed_SDPO_Pct) - bdpo, written out.
PolicyPrice(r) == (r.MRP * (100 - r.Fixed_SDPO_Pct)) \div 100 - r.bdpo_val

\* The floor _apply_constraints uses, written out: the MOP column, or the cost
\* when the table has no MOP column or the MOP exceeds the ceiling of a
\* product with MRP > 0.
PolicyFloor(r) ==
    LET ceil == IF r.is_opp THEN (r.MRP * 96) \div 100
                ELSE ((r.MRP - r.bdpo_val) \div Unit) * Unit
    IN  IF "MOP" \notin DOMAIN r THEN r.cogs
        ELSE IF r.MOP > ceil /\ r.MRP > 0 THEN r.cogs ELSE r.MOP

Max2(a, b) == IF a >= b THEN a ELSE b

MaxTierRows == 3

U12_pieces == <<"1", "2", "_", "p", "i", "e", "c", "e", "s">>
U30_pieces == <<"3", "0", "_", "p", "i", "e", "c", "e", "s">>

GmvValues == {0, 1, 4, 15}

TierRows ==
    [CITY : {S_Delhi, S_Mysore}, Normalized_UOM : {U12_pieces, U30_pieces},
     GMV_Contribution : GmvValues]

InitTier ==
    /\ pc = "brand_sdpo"
    /\ NoMatching
    /\ target_margin_override = None
    /\ \E n \in 1..MaxTierRows : df \in [1..n -> TierRows]

NextTier == CalculateKviTiers

SpecTier == InitTier /\ [][NextTier]_vars

\* ------------------------------------------------------- claims C8, C9

Tiered == pc = "kvi_tiers"

TierRank(k) == IF k = "Tier 1" THEN 1 ELSE IF k = "Tier 2" THEN 2 ELSE 3

\* Rows i and j of the tiered table are in the same (city, pack_category) group.
SameGroup(i, j) ==
    df[i].CITY = df[j].CITY /\ df[i].pack_category = df[j].pack_category

\* C8 (as claimed): within a (city, pack_category) group a product with a
\* strictly higher revenue weight never has a less important tier than one with
\* a lower weight, in every row order.
C8_TierMonotoneInWeight ==
    Tiered => \A i, j \in 1..Len(df) :
        (SameGroup(i, j) /\ df[i].GMV_Contribution > df[j].GMV_Contribution)
            => TierRank(df[i].kvi_tier) <= TierRank(df[j].kvi_tier)

\* The sum of the weights of the products of i's group that come no later than
\* i in descending-weight order (i itself included).
RECURSIVE DescSum(_, _)
DescSum(i, n) ==
    IF n = 0 THEN 0
    ELSE DescSum(i, n - 1)
         + (IF SameGroup(i, n)
               /\ df[n].GMV_Contribution >= df[i].GMV_Contribution
            THEN df[n].GMV_Contribution ELSE 0)

RECURSIVE GroupTotal(_, _)
GroupTotal(i, n) ==
    IF n = 0 THEN 0
    ELSE GroupTotal(i, n - 1)
         + (IF SameGroup(i, n) THEN df[n].GMV_Contribution ELSE 0)

\* No other product of i's group has the weight of i.
WeightUnique(i) ==
    \A j \in 1..Len(df) :
        (j # i /\ SameGroup(i, j))
            => df[j].GMV_Contribution # df[i].GMV_Contribution

\* C9 (as claimed): a product with positive weight is tiered by its cumulative
\* share in descending-weight order: Tier 1 if <= 0.80, Tier 2 if <= 0.95, else
\* Tier 3; here for products whose weight is unique in their group.
C9_TierFromDescendingShare ==
    Tiered => \A i \in 1..Len(df) :
        (df[i].GMV_Contribution > 0 /\ WeightUnique(i))
            => LET cum == DescSum(i, Len(df))
                   tot == GroupTotal(i, Len(df))
               IN  df[i].kvi_tier =
                     IF cum * 100 <= 80 * tot THEN "Tier 1"
                     ELSE IF cum * 100 <= 95 * tot THEN "Tier 2"
                     ELSE "Tier 3"

\* ------------------------------------------- the private-label matching alone
\* run_matching up to the end of _match_opp, for one or two private-label
\* products of one city and pack, and a competitor table of the same group in
\* every row order.

MaxPool == 4

PoolPrices ==
    {0 - 5 * Unit, 0, 10 * Unit, 102 * (Unit \div 10), 105 * (Unit \div 10),
     106 * (Unit \div 10), 12 * Unit}

OppProduct(code) ==
    [CITY |-> S_Delhi, ITEM_CODE |-> code, ITEM_NAME |-> S_White_Eggs,
     BRAND |-> S_Fresho, UOM |-> S_12_pcs, MRP |-> 100 * Unit]

OppObservation(price) ==
    [city |-> S_delhi, brand_name |-> S_Local, product_name |-> S_White_Eggs,
     uom |-> S_12_pcs, selling_price |-> price, mrp |-> 100 * Unit,
     source |-> S_blinkit]

OppCogs == <<[CITY |-> S_Delhi, ITEM_CODE |-> 11962, COGS |-> 5 * Unit],
             [CITY |-> S_Delhi, ITEM_CODE |-> 11966, COGS |-> 6 * Unit]>>

\* The variables that hold no value before the stage that sets them.
NotYetRun ==
    /\ im_df = <<>>
    /\ comp_df = <<>>
    /\ todo = <<>>
    /\ sub_im = <<>>
    /\ sub_comp = <<>>
    /\ valid_comp = <<>>
    /\ matches = <<>>
    /\ df = <<>>
    /\ first_run = <<>>

InitOpp ==
    /\ pc = "start"
    /\ NotYetRun
    /\ target_margin_override = None
    /\ \E im \in {<<OppProduct(11962)>>, <<OppProduct(11966), OppProduct(11962)>>},
          n \in 0..MaxPool :
          \E prices \in [1..n -> PoolPrices] :
              inputs = [im    |-> im,
                        comp  |-> [i \in 1..n |-> OppObservation(prices[i])],
                        cogs  |-> OppCogs,
                        excl  |-> <<>>, stock |-> <<>>, gmv |-> <<>>, sdpo |-> <<>>]

NextOpp == NormalizeUom \/ PrepData \/ MatchOppBegin \/ MatchOppGroup

SpecOpp == InitOpp /\ [][NextOpp]_vars

\* ------------------------------------------------------------- claim C10

\* The prices of a table of competitor rows.
PricesOf(t) == [i \in 1..Len(t) |-> t[i].selling_price]

\* The rows of sub_comp whose index is in K, in order.
Kept(K) == SelectSeq([i \in 1..Len(sub_comp) |-> [at |-> i, row |-> sub_comp[i]]],
                     LAMBDA e : e.at \in K)

\* The price of the last kept observation before index i, for the kept set K.
LastKeptPrice(K, i) == sub_comp[MaxOf({k \in K : k < i})].selling_price

\* sub_comp ascends in price, and consecutive kept prices are >= 5% apart.
SortedAndSpaced ==
    /\ \A i, j \in 1..Len(sub_comp) :
           i < j => sub_comp[i].selling_price <= sub_comp[j].selling_price
    /\ \A k \in 1..(Len(valid_comp) - 1) :
           valid_comp[k + 1].selling_price * 100 >= valid_comp[k].selling_price * 105

\* C10, as stated: of the pool of a private-label group sorted ascending by
\* price, _match_opp keeps the cheapest observation, keeps a later observation
\* exactly when its price is >= 1.05 x the last kept price and drops it
\* otherwise, so that consecutive kept prices are at least 5% apart.
C10_KeepsCheapestThenSpaced ==
    /\ SortedAndSpaced
    /\ \E K \in SUBSET (1..Len(sub_comp)) :
          /\ valid_comp = [k \in 1..Len(Kept(K)) |-> Kept(K)[k].row]
          /\ sub_comp # <<>> => 1 \in K
          /\ \A i \in 2..Len(sub_comp) :
                 i \in K <=> /\ {k \in K : k < i} # {}
                             /\ sub_comp[i].selling_price * 100
                                  >= LastKeptPrice(K, i) * 105

\* C10, amended: of the pool of a private-label group sorted ascending by
\* price, _match_opp keeps no observation with a negative price; it keeps the
\* cheapest observation with a price >= 0, and keeps a later observation
\* exactly when its price is >= 1.05 x the last kept price and drops it
\* otherwise, so that consecutive kept prices are at least 5% apart.
C10_KeepsCheapestNonNegativeThenSpaced ==
    /\ SortedAndSpaced
    /\ \E K \in SUBSET (1..Len(sub_comp)) :
          /\ valid_comp = [k \in 1..Len(Kept(K)) |-> Kept(K)[k].row]
          /\ \A i \in 1..Len(sub_comp) :
                 i \in K <=>
                    /\ sub_comp[i].selling_price >= 0
                    /\ \/ {k \in K : k < i} = {}
                       \/ sub_comp[i].selling_price * 100
                            >= LastKeptPrice(K, i) * 105

\* The pool [10, 10.2, 10.6, 12] has been spaced to [10, 10.6, 12].
C10_Witness ==
    /\ pc = "match_opp"
    /\ PricesOf(sub_comp) = <<10 * Unit, 102 * (Unit \div 10),
                              106 * (Unit \div 10), 12 * Unit>>
    /\ PricesOf(valid_comp) = <<10 * Unit, 106 * (Unit \div 10), 12 * Unit>>

\* ------------------------------------------------------ the whole pipeline
\* run_matching followed by run_pricing, on small tables: a private-label and
\* a branded product in a T1 city and the private-label product in a T2 city
\* of another state's T1 city; side tables that are empty, hold one row per
\* key, or hold two rows for one key.

\* A product code that is not in opp_codes.
BrandedCode == 500

BrandedProduct ==
    [CITY |-> S_Delhi, ITEM_CODE |-> BrandedCode, ITEM_NAME |-> S_Brown_Eggs,
     BRAND |-> S_Eggoz_Farms, UOM |-> S_6_pcs, MRP |-> 60 * Unit]

T2Product == [OppProduct(11962) EXCEPT !.CITY = S_Mysore]
T1Product == [OppProduct(11962) EXCEPT !.CITY = S_Bangalore]

BrandedObservation ==
    [city |-> S_delhi, brand_name |-> S_Eggoz, product_name |-> S_Brown_Eggs,
     uom |-> S_6_pcs, selling_price |-> 55 * Unit, mrp |-> 60 * Unit,
     source |-> S_zepto]

BangaloreObservation == [OppObservation(90 * Unit) EXCEPT !.city = S_Bangalore]

ImTables ==
    {<<OppProduct(11962)>>, <<BrandedProduct>>,
     <<OppProduct(11962), BrandedProduct>>, <<T2Product, T1Product>>}

CompTables ==
    {<<>>, <<BrandedObservation, OppObservation(90 * Unit)>>,
     <<BangaloreObservation>>}

CogsRow(city, code, cogs) == [CITY |-> city, ITEM_CODE |-> code, COGS |-> cogs]

CogsTables ==
    {<<>>,
     <<CogsRow(S_Delhi, 11962, 80 * Unit), CogsRow(S_Delhi, BrandedCode, 40 * Unit)>>,
     <<CogsRow(S_Delhi, 11962, 80 * Unit), CogsRow(S_Delhi, 11962, 85 * Unit)>>}

ExclTables == {<<>>, <<[CITY |-> S_Delhi, BRAND |-> S_Local]>>}

StockRow(status) == [CITY |-> S_Delhi, ITEM_CODE |-> 11962, STOCK_STATUS |-> status]

StockTables == {<<>>, <<StockRow(W_insufficient), StockRow(W_NA)>>}

GmvRow(code, gmv) == [ITEM_CODE |-> code, GMV_Contribution |-> gmv]

GmvTables ==
    {<<>>, <<GmvRow(11962, 4)>>, <<GmvRow(BrandedCode, 4), GmvRow(BrandedCode, 1)>>}

SdpoRow(pct) == [Brand |-> S_Eggoz_Farms, Hardcoded_SDPO |-> pct]

SdpoTables == {<<>>, <<SdpoRow(5)>>, <<SdpoRow(5), SdpoRow(50)>>}

Init ==
    /\ pc = "start"
    /\ NotYetRun
    /\ target_margin_override \in {None, 12}
    /\ inputs \in [im : ImTables, comp : CompTables, cogs : CogsTables,
                   excl : ExclTables, stock : StockTables, gmv : GmvTables,
                   sdpo : SdpoTables]

Next ==
    \/ NormalizeUom
    \/ ApplyExclusions
    \/ PrepData
    \/ MatchOppBegin
    \/ MatchOppGroup
    \/ MatchNonOpp
    \/ ApplyT2Fallback
    \/ MergeMatches
    \/ MergeStock
    \/ MergeGmv
    \/ MergeBrandSdpo
    \/ CalculateKviTiers
    \/ CalculateTargetMargins
    \/ CalculatePrices
    \/ ApplyConstraints

Spec == Init /\ [][Next]_vars

\* -------------------------------------------------------------- claim C1

\* The rows of the output for the Product Record (CITY, ITEM_CODE) of row p.
OutputRowsOf(p) ==
    {k \in 1..Len(df) : df[k].CITY = p.CITY /\ df[k].ITEM_CODE = p.ITEM_CODE}

\* C1: when run_matching and run_pricing have run, the output holds exactly
\* one row per input Product Record (CITY, ITEM_CODE): none is dropped and
\* none is duplicated, also when a side table is empty or holds more than one
\* row for a key.
C1_OneRowPerProduct ==
    pc = "constraints" =>
        /\ Len(df) = Len(inputs.im)
        /\ \A i \in 1..Len(inputs.im) : Cardinality(OutputRowsOf(inputs.im[i])) = 1

\* ------------------------------------------------------------- claim C11

\* The results that the last turn of the loop of _match_opp appended.
LastResults == SubSeq(matches, Len(matches) - Len(sub_im) + 1, Len(matches))

\* The rationale of a product whose rank i exceeds the n spaced observations.
RankExceedsAvail(i, n) ==
    C_opp_not_met_rank \o IntStr(i) \o C_opp_avail_open \o IntStr(n)
    \o C_opp_avail_close

\* C11: in a private-label group (same city, pack token, variant type) the
\* products are ranked by ascending cost and the product of rank i is matched
\* to the i-th element of the spaced competitor subsequence; a product whose
\* rank exceeds the length of the subsequence gets no matched price and the
\* rationale that its rank exceeded availability.
C11_RankAlignment ==
    (pc = "match_opp" /\ sub_im # <<>>) =>
        /\ \A i, j \in 1..Len(sub_im) :
               i < j => sub_im[i].COGS_LATEST <= sub_im[j].COGS_LATEST
        /\ \A k \in 1..Len(im_df) :
               (im_df[k].is_opp /\ GroupKey(im_df[k]) = GroupKey(sub_im[1]))
                   => \E i \in 1..Len(sub_im) : sub_im[i] = im_df[k]
        /\ \A i \in 1..Len(sub_im) :
               /\ LastResults[i].CITY = sub_im[i].CITY
               /\ LastResults[i].ITEM_CODE = sub_im[i].ITEM_CODE
               /\ IF i <= Len(valid_comp)
                  THEN /\ LastResults[i].Min_Comp_Price = valid_comp[i].selling_price
                       /\ LastResults[i].Min_Comp_Brand = valid_comp[i].brand_name
                       /\ LastResults[i].Min_Comp_Source = valid_comp[i].source
                  ELSE /\ IsNaN(LastResults[i].Min_Comp_Price)
                       /\ LastResults[i].Match_Logic_Comment
                            = RankExceedsAvail(i, Len(valid_comp))

\* Two products, entered in descending cost order, and one spaced observation:
\* the cheaper product has the match, the other one's rank exceeds availability.
C11_Witness ==
    /\ pc = "match_opp"
    /\ Len(sub_im) = 2
    /\ Len(valid_comp) = 1
    /\ inputs.im[1].ITEM_CODE = sub_im[2].ITEM_CODE
    /\ sub_im[1].COGS_LATEST < sub_im[2].COGS_LATEST
    /\ matches[1].Min_Comp_Price = valid_comp[1].selling_price
    /\ IsNaN(matches[2].Min_Comp_Price)

\* ------------------------------------------------ the end-to-end scenario
\* Three private-label products of one city and pack 12_pieces with costs
\* 5, 6, 7 and two competitor observations of the same group at 8 and 8.3, in
\* every row order of the product table, of the competitor table and of the
\* cost table's first two rows; the city is a T1 or a T2 city, the MRP is 20
\* or 100, and the other tables are empty or hold rows that the scenario
\* leaves open.

ScenarioCodes == <<11962, 11966, 11961>>

ScenarioCost(code) ==
    IF code = 11962 THEN 5 * Unit ELSE IF code = 11966 THEN 6 * Unit ELSE 7 * Unit

ScenarioProduct(city, code, mrp) ==
    [OppProduct(code) EXCEPT !.CITY = city, !.MRP = mrp]

ScenarioObservation(city, price) ==
    [OppObservation(price) EXCEPT !.city = city]

ScenarioInputs(city, mrp, p, q) ==
    [im    |-> [i \in 1..3 |-> ScenarioProduct(city, ScenarioCodes[p[i]], mrp)],
     comp  |-> [i \in 1..2 |->
                   ScenarioObservation(city, <<8 * Unit, 83 * (Unit \div 10)>>[q[i]])],
     cogs  |-> [i \in 1..3 |->
                   CogsRow(city, ScenarioCodes[p[i]], ScenarioCost(ScenarioCodes[p[i]]))]]

InitScenario ==
    /\ pc = "start"
    /\ NotYetRun
    /\ target_margin_override \in {None, 12}
    /\ \E city \in {S_Delhi, S_Mysore}, mrp \in {20 * Unit, 100 * Unit},
          p \in Perms(3), q \in Perms(2),
          excl \in {<<>>, <<[CITY |-> S_Delhi, BRAND |-> S_Eggoz]>>},
          gmv \in {<<>>, <<GmvRow(11966, 4), GmvRow(11962, 1)>>} :
          \E stock \in {<<>>, <<[CITY |-> city, ITEM_CODE |-> 11966,
                                  STOCK_STATUS |-> W_insufficient]>>} :
              inputs = [excl |-> excl, stock |-> stock, gmv |-> gmv, sdpo |-> <<>>]
                       @@ ScenarioInputs(city, mrp, p, q)

SpecScenario == InitScenario /\ [][Next]_vars

\* ------------------------------------------------------------- claim C12

\* The rows of table t for the product of the scenario with the given cost.
RowsOfCost(t, cost) ==
    {i \in 1..Len(t) : ScenarioCost(t[i].ITEM_CODE) = cost}

\* C12: in the scenario the spaced subsequence is [8]; the product with cost
\* 5 gets the matched price 8, the two other products get no match, and the
\* price the cascade of _calculate_prices selects for them is
\* min_margin_price = target_margin x MRP + cost - brand discount amount.
C12_EndToEnd ==
    /\ (pc = "match_opp" /\ todo = <<>>) =>
           /\ PricesOf(valid_comp) = <<8 * Unit>>
           /\ \A i \in 1..Len(matches) :
                  IF ScenarioCost(matches[i].ITEM_CODE) = 5 * Unit
                  THEN matches[i].Min_Comp_Price = 8 * Unit
                  ELSE IsNaN(matches[i].Min_Comp_Price)
    /\ pc = "matched" =>
           /\ Len(df) = 3
           /\ \A i \in 1..Len(df) :
                  df[i].Min_Comp_Price
                    = IF df[i].COGS_LATEST = 5 * Unit THEN 8 * Unit ELSE 0
    /\ pc = "prices" =>
           \A i \in 1..Len(df) :
               df[i].COGS_LATEST # 5 * Unit =>
                   /\ df[i].COGS_LATEST \in {6 * Unit, 7 * Unit}
                   /\ df[i].model_price = df[i].price_min_margin
                   /\ df[i].model_price
                        = (df[i].MRP * df[i].target_nm) \div 100
                          + df[i].COGS_LATEST - df[i].bdpo_val

\* The scenario has been priced: one product matched at 8, two priced at
\* their minimum-margin price.
C12_Witness ==
    /\ pc = "prices"
    /\ Cardinality({i \in 1..Len(df) : df[i].Min_Comp_Price = 8 * Unit}) = 1
    /\ Cardinality({i \in 1..Len(df) :
                       /\ df[i].Min_Comp_Price = 0
                       /\ df[i].model_price = df[i].price_min_margin}) = 2

\* ------------------------------------------------------------- claim C13

\* s starts with the characters of w.
StartsWith(s, w) == HasAt(s, 1, w)

\* The rationale of row r is a non-empty string that names the policy that
\* handled the product: rank matching for a private-label product, the
\* attribute join for a branded one, or the geographic fallback.
NamesItsRule(r) ==
    /\ r.Match_Logic_Comment \notin {<<>>, CellNaN, CellNone}
    /\ \/ StartsWith(r.Match_Logic_Comment, C_fallback_used)
       \/ /\ r.is_opp
          /\ \/ StartsWith(r.Match_Logic_Comment, C_opp_match_rank)
             \/ StartsWith(r.Match_Logic_Comment, C_opp_not_met_rank)
       \/ /\ ~r.is_opp
          /\ \/ StartsWith(r.Match_Logic_Comment, C_non_opp_match)
             \/ r.Match_Logic_Comment = C_non_opp_not_met

\* C13: the table run_matching returns holds exactly one Match Result per
\* Product Record, produced by exactly one of the two policies, and every row
\* carries a non-empty rationale naming the rule, also when the matched price
\* is absent.
C13_OneMatchResultPerProduct ==
    pc = "matched" =>
        /\ Len(df) = Len(inputs.im)
        /\ \A i \in 1..Len(inputs.im) : Cardinality(OutputRowsOf(inputs.im[i])) = 1
        /\ \A k \in 1..Len(df) : NamesItsRule(df[k])

\* ------------------------------------------------ the branded matching alone
\* run_matching without exclusions, for branded products only: one product
\* in a T1 city, or the same product in a T2 city and in the T1 city of its
\* state, and a competitor table of up to MaxObs observations of the brand
\* (same pack token, or same pack size under another token; a price that is
\* negative, positive or missing), in every row order.

MaxObs == 3

BrandedIn(city) == [BrandedProduct EXCEPT !.CITY = city]

BrandedImTables ==
    {<<BrandedIn(S_Delhi)>>, <<BrandedIn(S_Mysore), BrandedIn(S_Bangalore)>>}

ObsPrices == {0 - 5 * Unit, 50 * Unit, 55 * Unit, NaN}

BrandedObservations(im) ==
    {[BrandedObservation EXCEPT !.city = c, !.uom = u, !.selling_price = p] :
        c \in {im[i].CITY : i \in 1..Len(im)}, u \in {S_6_pcs, S_6_g},
        p \in ObsPrices}

InitBranded ==
    /\ pc = "start"
    /\ NotYetRun
    /\ target_margin_override = None
    /\ \E im \in BrandedImTables, n \in 0..MaxObs :
          \E comp \in [1..n -> BrandedObservations(im)] :
              inputs = [im    |-> im,
                        comp  |-> comp,
                        cogs  |-> <<CogsRow(S_Delhi, BrandedCode, 40 * Unit)>>,
                        excl  |-> <<>>, stock |-> <<>>, gmv |-> <<>>, sdpo |-> <<>>]

NextBranded ==
    \/ NormalizeUom
    \/ PrepData
    \/ MatchOppBegin
    \/ MatchNonOpp
    \/ ApplyT2Fallback
    \/ MergeMatches

SpecBranded == InitBranded /\ [][NextBranded]_vars

\* ------------------------------------------------------------- claim C14

\* C14: the matched price of a Match Result is absent or non-negative, for a
\* private-label and for a branded product, matched directly or through the
\* geographic fallback, also when the competitor table holds observations
\* with a negative selling price.
C14_MatchedPriceNeverNegative ==
    /\ pc \in {"match_opp", "match_non_opp", "t2_fallback"} =>
           \A i \in 1..Len(matches) :
               IsNaN(matches[i].Min_Comp_Price) \/ matches[i].Min_Comp_Price >= 0
    /\ pc = "matched" =>
           \A i \in 1..Len(df) :
               IsNaN(df[i].Min_Comp_Price) \/ df[i].Min_Comp_Price >= 0

\* ----------------------------------------------------- the pipeline, twice
\* The caller runs run_matching and run_pricing a second time with the very
\* tables of the first run, as the first run left them.

\* The second call: the first output is kept aside, the tables stay as they
\* are, and the pipeline starts again.
RunAgain ==
    /\ pc = "constraints"
    /\ first_run = <<>>
    /\ first_run' = <<df>>
    /\ pc' = "start"
    /\ im_df' = <<>>
    /\ comp_df' = <<>>
    /\ todo' = <<>>
    /\ sub_im' = <<>>
    /\ sub_comp' = <<>>
    /\ valid_comp' = <<>>
    /\ matches' = <<>>
    /\ df' = <<>>
    /\ UNCHANGED <<inputs, target_margin_override>>

InitTwice == Init /\ target_margin_override = None

NextTwice == Next \/ RunAgain

SpecTwice == InitTwice /\ [][NextTwice]_vars

\* ------------------------------------------------------------- claim C15

\* C15: a second run of the pipeline on the table objects of the first run
\* returns the table the first run returned: same rows, matched prices, tiers,
\* target margins, final prices and reasons.
C15_SecondRunSameOutput ==
    (pc = "constraints" /\ first_run # <<>>) => df = first_run[1]

\* A second run has finished on a cost table that the first run renamed, with
\* a cost that is not zero in the output.
C15_Witness ==
    /\ pc = "constraints"
    /\ first_run # <<>>
    /\ inputs.cogs # <<>>
    /\ "COGS_LATEST" \in DOMAIN inputs.cogs[1]
    /\ \E i \in 1..Len(df) : df[i].COGS_LATEST > 0

\* ------------------------------------------------------------- claim C16

\* C16: no stage of run_matching and run_pricing changes a table of the
\* caller: the product, competitor, cost, exclusion, stock, revenue-weight
\* and brand-discount tables keep their columns, column names and values.
C16_InputsNotMutated == [][inputs' = inputs]_vars

\* ------------------------------------------------- the normalizer alone

\* Raw unit values of the product table: strings that match one pattern of
\* _parse_uom_string, several of them, or none, and the missing values.
UomValues ==
    {<<"2", " ", "c", "o", "m", "b", "o">>,
     <<"1", " ", "p", "a", "c", "k", " ", "(", "6", " ", "p", "c", "s", ")">>,
     <<"I", " ", "P", "a", "c", "k", " ", "(", "6", " ", "p", "c", "s", ")">>,
     <<"p", "a", "c", "k", " ", "o", "f", " ", "5", "0", "0", " ", "g", " ", "(", " ", "1", "0", " ", "p", "i", "e", "c", "e", "s", " ", ")">>,
     <<"6", " ", "p", "a", "c", "k">>,
     <<"2", " ", "p", "a", "c", "k", " ", "5", "0", "0", "g">>,
     <<"1", "2", " ", "p", "c", "s">>,
     <<"5", "0", "0", " ", "g", " ", "6", " ", "p", "c", "s">>,
     <<"1", "0", " ", "p", "i", "e", "c", "e", "s">>,
     <<"5", "0", "0", "g">>,
     <<"2", "5", "0", "m", "l">>,
     <<"5", "0", "0", " ", "g", " ", "2", "5", "0", " ", "m", "l">>,
     <<"3", "0">>,
     <<"1", " ", "k", "g">>,
     <<"d", "o", "z", "e", "n">>,
     <<"u", "n", "k", "n", "o", "w", "n">>,
     <<>>,
     <<" ", "6", " ", "P", "C", "S", " ">>,
     <<"0", " ", "p", "c", "s">>,
     <<"6", " ", "p", "a", "c", "k", " ", "(", "1", "2", " ", "p", "c", ")">>,
     CellNaN, CellNone}

\* Item names: with a piece count, with a count of eggs, without a count, and
\* the missing values.
NameValues ==
    {<<>>,
     <<"B", "r", "a", "n", "d", " ", "E", "g", "g", "s", " ", "1", "2", " ", "P", "i", "e", "c", "e", "s">>,
     <<"F", "a", "r", "m", " ", "F", "r", "e", "s", "h", " ", "E", "g", "g", "s">>,
     <<"6", " ", "W", "h", "i", "t", "e", " ", "E", "g", "g", "s">>,
     <<"B", "r", "o", "w", "n", " ", "E", "g", "g", "s", " ", "3", "0">>,
     <<"E", "g", "g", "s", " ", "0", " ", "p", "c", "s">>,
     CellNone}

S_1_pack_6_pcs == <<"1", " ", "p", "a", "c", "k", " ", "(", "6", " ", "p", "c", "s", ")">>
S_250ml == <<"2", "5", "0", "m", "l">>
S_500g == <<"5", "0", "0", "g">>
S_Brand_Eggs_12_Pieces == <<"B", "r", "a", "n", "d", " ", "E", "g", "g", "s", " ", "1", "2", " ", "P", "i", "e", "c", "e", "s">>
S_6_pieces == <<"6", "_", "p", "i", "e", "c", "e", "s">>
S_250_ml == <<"2", "5", "0", "_", "m", "l">>
S_12_pieces == <<"1", "2", "_", "p", "i", "e", "c", "e", "s">>

\* _normalize_im on a product table of one row.
InitNormalize ==
    /\ pc = "start"
    /\ NotYetRun
    /\ target_margin_override = None
    /\ \E u \in UomValues, name \in NameValues :
          inputs = [im    |-> <<[OppProduct(11962) EXCEPT !.UOM = u,
                                                         !.ITEM_NAME = name]>>,
                    comp  |-> <<>>, cogs |-> <<>>,
                    excl  |-> <<>>, stock |-> <<>>, gmv |-> <<>>, sdpo |-> <<>>]

SpecNormalize == InitNormalize /\ [][NormalizeUom]_vars

\* ------------------------------------------------------------- claim C17

\* The patterns of _parse_uom_string in the order the claim gives them: k-th
\* pattern matches the stripped, lower-cased unit string s0.
PatternMatches(k, s0) ==
    LET s == ReplaceIPack(s0)
    IN  CASE k = 1 -> s0 = W_2_combo_raw
          [] k = 2 -> SearchPackParen(s) # 0
          [] k = 3 -> MatchLeadingPack(s)
          [] k = 4 -> SearchCountUnit(s, {W_pieces, W_pcs, W_piece}) # 0
          [] k = 5 -> SearchCountUnit(s, {W_g}) # 0
          [] k = 6 -> SearchCountUnit(s, {W_ml}) # 0
          [] k = 7 -> IsDigitStr(s)

\* The token the k-th pattern gives for s0.
PatternToken(k, s0) ==
    LET s == ReplaceIPack(s0)
    IN  CASE k = 1 -> W_2_combo
          [] k = 2 -> RunText(s, SkipSpaces(s, SearchPackParen(s) + 1))
                      \o Suffix_pieces
          [] k = 3 -> RunText(s, 1) \o Suffix_pieces
          [] k = 4 -> RunText(s, SearchCountUnit(s, {W_pieces, W_pcs, W_piece}))
                      \o Suffix_pieces
          [] k = 5 -> RunText(s, SearchCountUnit(s, {W_g})) \o Suffix_g
          [] k = 6 -> RunText(s, SearchCountUnit(s, {W_ml})) \o Suffix_ml
          [] k = 7 -> s \o Suffix_pieces

\* The item name carries a piece count that normalize uses.
NameCount(name) ==
    IF Truthy(name) /\ extract_count_from_name(name) # None
       /\ extract_count_from_name(name) # 0
    THEN extract_count_from_name(name) ELSE None

\* C17: normalize applies the unit patterns in strict precedence, the first
\* that matches deciding the token (synonym table, 'pack ... (N pcs)', leading
\* 'N pack', 'N pieces/pcs', grams, millilitres, bare integer), and a weight or
\* volume token is overridden by a piece count found in the item name; so
\* "1 pack (6 pcs)" gives "6_pieces" with any name, "250ml" with an empty name
\* gives "250_ml", and "500g" with "Brand Eggs 12 Pieces" gives "12_pieces".
C17_PatternPrecedence ==
    pc = "normalized" =>
      LET raw   == inputs.im[1].UOM
          name  == inputs.im[1].ITEM_NAME
          s0    == StrLower(StrStrip(Str(raw)))
          token == im_df[1].Normalized_UOM
          ks    == {k \in 1..7 : PatternMatches(k, s0)}
      IN  /\ ks # {} =>
                LET k == MinOf(ks)
                IN  IF k \in {5, 6} /\ NameCount(name) # None
                    THEN token = IntStr(NameCount(name)) \o Suffix_pieces
                    ELSE token = PatternToken(k, s0)
          /\ raw = S_1_pack_6_pcs => token = S_6_pieces
          /\ (raw = S_250ml /\ name = <<>>) => token = S_250_ml
          /\ (raw = S_500g /\ name = S_Brand_Eggs_12_Pieces)
                => token = S_12_pieces

C17_Witness ==
    /\ pc = "normalized"
    /\ inputs.im[1].UOM = S_500g
    /\ inputs.im[1].ITEM_NAME = S_Brand_Eggs_12_Pieces
    /\ im_df[1].Normalized_UOM = S_12_pieces

\* ------------------------------------------------------------- claim C18

S_0_pieces == <<"0", "_", "p", "i", "e", "c", "e", "s">>

\* C18: for an empty or non-string raw unit value (empty string, NaN, None),
\* normalize returns the one missing marker "nan" when the item name carries
\* no usable piece count, and the count from the name when it carries one; it
\* never returns a 0-count pack for such a value.
C18_MissingUnitMarker ==
    pc = "normalized" =>
      LET raw   == inputs.im[1].UOM
          name  == inputs.im[1].ITEM_NAME
          token == im_df[1].Normalized_UOM
      IN  raw \in {<<>>, CellNaN, CellNone} =>
            /\ token # S_0_pieces
            /\ IF NameCount(name) # None
               THEN token = IntStr(NameCount(name)) \o Suffix_pieces
               ELSE token = W_nan

\* ------------------------------------- tiers and target margins alone

MaxMarginRows == 2

\* Values of run_pricing's target_margin_override: absent, and percentages
\* inside and outside 0..100.
OverrideValues == {None, 0, 12, 100, 0 - 5}

\* Rows as _merge_brand_sdpo leaves them, with the columns _calculate_kvi_tiers
\* and _calculate_target_margins read.
MarginRows ==
    {[CITY |-> c, Normalized_UOM |-> u, GMV_Contribution |-> g,
      city_tier |-> city_tier_of(clean_str(c)), is_opp |-> o] :
        c \in {S_Delhi, S_Mysore}, u \in {S_6_pieces, U12_pieces, U30_pieces, S_250_ml},
        g \in {0, 4}, o \in BOOLEAN}

InitMargin ==
    /\ pc = "brand_sdpo"
    /\ NoMatching
    /\ target_margin_override \in OverrideValues
    /\ \E n \in 1..MaxMarginRows : df \in [1..n -> MarginRows]

NextMargin == CalculateKviTiers \/ CalculateTargetMargins

SpecMargin == InitMargin /\ [][NextMargin]_vars

\* ------------------------------------------------------------- claim C19

\* C19: every product's tier is one of Tier 1, Tier 2, Tier 3 and its target
\* margin fraction lies in [0, 1) (0 <= percent < 100), when it comes from the
\* table of get_target and when the caller's override replaces it.
C19_TierAndMarginInRange ==
    pc = "target_margins" =>
      \A i \in 1..Len(df) :
        /\ df[i].kvi_tier \in {"Tier 1", "Tier 2", "Tier 3"}
        /\ df[i].target_nm >= 0
        /\ df[i].target_nm < 100

\* ------------------------------------------------------------- claim C20

\* The row the price calculator has worked on.
CascadeRow == df[1]

\* comp_price - cost + brand_fixed_discount_amount
ComparablePriceMargin(r) == Add(Sub(r.price_comp, r.cogs), r.bdpo_val)

\* The product is in a T2 city and its stock is insufficient.
T2Insufficient(r) ==
    r.city_tier = "T2" /\ StrLower(Str(r.STOCK_STATUS)) = W_insufficient

\* The claim's product: cost > 0, no brand fixed discount, and not eligible
\* for the Tier-1 undercut, the realized margin taken over den.
CascadeCase(r, den) ==
    /\ Gt(r.cogs, 0)
    /\ r.Fixed_SDPO_Pct = 0
    /\ ~ (/\ r.kvi_tier = "Tier 1"
          /\ Gt(r.Min_Comp_Price, 0)
          /\ RatioGt(ComparablePriceMargin(r), den, r.target_nm)
          /\ ~T2Insufficient(r))

\* The price the claim gives, the realized margin taken over den.
CascadePrice(r, den) ==
    IF RatioGe(ComparablePriceMargin(r), den, r.target_nm) /\ ~T2Insufficient(r)
    THEN r.price_comp ELSE r.price_min_margin

\* C20, as stated: for cost > 0, no brand fixed discount and no Tier-1
\* undercut, the cascade's price is comp_price exactly when
\* (comp_price - cost + brand_fixed_discount_amount) / MRP >= target margin and
\* the product is not (T2 and stock-insufficient), else min_margin_price.
C20_CascadeOverMrp ==
    pc = "prices" =>
      (CascadeCase(CascadeRow, CascadeRow.MRP)
         => CascadeRow.model_price = CascadePrice(CascadeRow, CascadeRow.MRP))

\* The divisor of the code: the MRP, and 1 for an MRP of 0.
MrpOrOne(r) == IF r.MRP = 0 THEN Unit ELSE r.MRP

\* C20, amended: the same with the realized margin taken over the MRP, or
\* over 1 when the MRP is 0; with a missing MRP the price is min_margin_price.
C20_CascadeOverMrpOrOne ==
    pc = "prices" =>
      (CascadeCase(CascadeRow, MrpOrOne(CascadeRow))
         => CascadeRow.model_price = CascadePrice(CascadeRow, MrpOrOne(CascadeRow)))

C20_Witness ==
    /\ pc = "prices"
    /\ CascadeCase(CascadeRow, MrpOrOne(CascadeRow))
    /\ Gt(CascadeRow.Min_Comp_Price, 0)
    /\ CascadeRow.model_price = CascadeRow.price_comp
    /\ CascadeRow.price_comp # CascadeRow.price_min_margin

\* ------------------------------------------------------------- claim C21

\* The cascade selected the 2% undercut for the row.
Undercut(r) == r.Stock_Action = "KVI T1 Aggression: Beat Comp by 2%"

\* The stock status of the row is 'insufficient', in any city.
StockInsufficient(r) == StrLower(Str(r.STOCK_STATUS)) = W_insufficient

\* C21: the 2% undercut (price = comp_price x 0.98) is selected only for a
\* product that is Tier 1, has a competitor match, has a realized margin from
\* the competitor price strictly above target, and is not stock-insufficient:
\* no product with an insufficient stock status is undercut, in a T1 or a T2
\* city.
C21_UndercutOnlyWhenEligible ==
    pc = "prices" =>
      (Undercut(CascadeRow) =>
         /\ CascadeRow.model_price = MulPct(CascadeRow.price_comp, 98)
         /\ CascadeRow.kvi_tier = "Tier 1"
         /\ Gt(CascadeRow.Min_Comp_Price, 0)
         /\ RatioGt(ComparablePriceMargin(CascadeRow), MrpOrOne(CascadeRow),
                    CascadeRow.target_nm)
         /\ ~StockInsufficient(CascadeRow))

\* ------------------------------------------------------------- claim C22

\* The observations that match product l on (city, brand key, pack token,
\* rounded MRP), and on (city, brand key, numeric pack size, rounded MRP).
TokenMatchesOf(l) ==
    {j \in 1..Len(comp_df) :
        /\ comp_df[j].city_clean = l.city_clean
        /\ comp_df[j].brand_key = l.brand_key
        /\ comp_df[j].uom_clean = l.uom_clean
        /\ comp_df[j].mrp_int = l.mrp_int}
PackMatchesOf(l) ==
    {j \in 1..Len(comp_df) :
        /\ comp_df[j].city_clean = l.city_clean
        /\ comp_df[j].brand_key = l.brand_key
        /\ comp_df[j].pack_size = l.pack_size
        /\ comp_df[j].mrp_int = l.mrp_int}

\* The lowest price of the observations J, missing when none has a price.
CheapestOf(J) ==
    LET ps == {comp_df[j].selling_price : j \in J} \ {NaN}
    IN  IF ps = {} THEN NaN ELSE MinOf(ps)

\* The results of _match_non_opp for product l.
NonOppResultsOf(l) ==
    {k \in 1..Len(matches) :
        matches[k].CITY = l.CITY /\ matches[k].ITEM_CODE = l.ITEM_CODE}

\* C22: for every branded product _match_non_opp returns one result with at
\* most one match: the cheapest observation that matches on the pack token
\* if there is one, otherwise the cheapest that matches on the numeric pack
\* size, otherwise no match; a numeric-pack-size candidate never wins over a
\* pack-token candidate, even when it is cheaper.
C22_BestPriorityThenCheapest ==
    pc = "match_non_opp" =>
      \A i \in 1..Len(im_df) :
        ~im_df[i].is_opp =>
          LET l == im_df[i]
              K == NonOppResultsOf(l)
          IN  /\ Cardinality(K) = 1
              /\ \A k \in K :
                   IF TokenMatchesOf(l) # {}
                   THEN /\ matches[k].Min_Comp_Price = CheapestOf(TokenMatchesOf(l))
                        /\ matches[k].Match_Logic_Comment
                             = C_non_opp_match \o C_exact_uom
                   ELSE IF PackMatchesOf(l) # {}
                   THEN /\ matches[k].Min_Comp_Price = CheapestOf(PackMatchesOf(l))
                        /\ matches[k].Match_Logic_Comment
                             = C_non_opp_match \o C_numeric_pack
                   ELSE /\ IsNaN(matches[k].Min_Comp_Price)
                        /\ matches[k].Match_Logic_Comment = C_non_opp_not_met

\* A pack-token match at 55 is returned although a numeric-pack-size
\* candidate at 50 is cheaper.
C22_Witness ==
    /\ pc = "match_non_opp"
    /\ \E i \in 1..Len(im_df) :
         /\ ~im_df[i].is_opp
         /\ CheapestOf(TokenMatchesOf(im_df[i])) = 55 * Unit
         /\ CheapestOf(PackMatchesOf(im_df[i])) = 50 * Unit
         /\ \E k \in NonOppResultsOf(im_df[i]) :
              matches[k].Min_Comp_Price = 55 * Unit

\* ------------------------------------------ the geographic fallback alone

S_Nagpur    == <<"N", "a", "g", "p", "u", "r">>
S_Mumbai    == <<"M", "u", "m", "b", "a", "i">>
S_Pune      == <<"P", "u", "n", "e">>
S_Agra      == <<"A", "g", "r", "a">>
S_Faridabad == <<"F", "a", "r", "i", "d", "a", "b", "a", "d">>

\* A T2 city of Maharashtra and its two T1 cities; a T2 city that is not in
\* city_state_map; a T1 city that is not in city_state_map.
FallbackCities == <<S_Nagpur, S_Mumbai, S_Pune, S_Agra, S_Faridabad>>

\* Matched prices before the fallback: none, zero, and two positive prices.
FallbackPrices == {NaN, 0, 50 * Unit, 55 * Unit}

\* The product of a city as _prep_data leaves it, with the columns
\* _apply_t2_fallback reads.
FallbackProduct(city) ==
    [CITY |-> city, ITEM_CODE |-> BrandedCode,
     city_tier |-> city_tier_of(clean_str(city)),
     state |-> state_of(clean_str(city))]

\* The result of _match_non_opp for the product of a city.
FallbackMatch(city, price) ==
    [CITY |-> city, ITEM_CODE |-> BrandedCode, Min_Comp_Price |-> price,
     Min_Comp_Brand  |-> IF IsNaN(price) THEN CellNaN ELSE S_Eggoz,
     Min_Comp_Source |-> IF IsNaN(price) THEN CellNaN
                         ELSE IF city = S_Pune THEN S_blinkit ELSE S_zepto,
     Match_Logic_Comment |-> IF IsNaN(price) THEN C_non_opp_not_met
                             ELSE C_non_opp_match \o C_exact_uom]

InitFallback ==
    /\ pc = "match_non_opp"
    /\ inputs = <<>>
    /\ comp_df = <<>>
    /\ todo = <<>>
    /\ sub_im = <<>>
    /\ sub_comp = <<>>
    /\ valid_comp = <<>>
    /\ df = <<>>
    /\ first_run = <<>>
    /\ target_margin_override = None
    /\ im_df = [i \in 1..Len(FallbackCities) |-> FallbackProduct(FallbackCities[i])]
    /\ \E prices \in [1..Len(FallbackCities) -> FallbackPrices] :
          matches = [i \in 1..Len(FallbackCities) |->
                        FallbackMatch(FallbackCities[i], prices[i])]

SpecFallback == InitFallback /\ [][ApplyT2Fallback]_vars

\* ------------------------------------------------------------- claim C23

\* The product row of a match result.
ProductOf(r) ==
    CHOOSE l \in {im_df[i] : i \in 1..Len(im_df)} :
        l.CITY = r.CITY /\ l.ITEM_CODE = r.ITEM_CODE

\* The T1 results with a positive price for the state and product of r.
T1SourcesOf(r) ==
    {j \in 1..Len(matches) :
        /\ ProductOf(matches[j]).city_tier = "T1"
        /\ ProductOf(matches[j]).state = ProductOf(r).state
        /\ matches[j].ITEM_CODE = r.ITEM_CODE
        /\ Gt(matches[j].Min_Comp_Price, 0)}

\* r is a T2 result without a positive price.
NeedsFallback(r) ==
    /\ ProductOf(r).city_tier = "T2"
    /\ (IsNaN(r.Min_Comp_Price) \/ r.Min_Comp_Price <= 0)

\* C23: _apply_t2_fallback changes a result only when its product is in a T2
\* city, its matched price is absent or <= 0, and some T1 result of the same
\* (state, product) has a price > 0; it then copies the price, brand and
\* source of a cheapest such T1 result, with a fallback rationale.  Every
\* other result is unchanged: T1 results, T2 results with a positive price,
\* and T2 results whose T1 counterparts are all unmatched.
C23_FallbackFrame ==
    [][pc' = "t2_fallback" =>
         /\ Len(matches') = Len(matches)
         /\ \A k \in 1..Len(matches) :
              LET r == matches[k]
                  J == T1SourcesOf(r)
              IN  IF NeedsFallback(r) /\ J # {}
                  THEN \E j \in J :
                         /\ \A h \in J : matches[j].Min_Comp_Price
                                           <= matches[h].Min_Comp_Price
                         /\ matches'[k] =
                              [r EXCEPT
                                 !.Min_Comp_Price  = matches[j].Min_Comp_Price,
                                 !.Min_Comp_Brand  = matches[j].Min_Comp_Brand,
                                 !.Min_Comp_Source = matches[j].Min_Comp_Source,
                                 !.Match_Logic_Comment =
                                     C_fallback_used
                                       \o StrTitle(ProductOf(r).state)
                                       \o C_fallback_t1]
                  ELSE matches'[k] = r]_vars

\* Nagpur, unmatched, has taken the price 50 of Pune, the cheaper of its two
\* matched T1 cities; Mumbai keeps its 55.
C23_Witness ==
    /\ pc = "t2_fallback"
    /\ Len(matches) = Len(FallbackCities)
    /\ matches[1].Min_Comp_Price = 50 * Unit
    /\ matches[1].Min_Comp_Source = S_blinkit
    /\ StartsWith(matches[1].Match_Logic_Comment, C_fallback_used)
    /\ matches[2].Min_Comp_Price = 55 * Unit
    /\ matches[3].Min_Comp_Price = 50 * Unit

\* ------------------------------------------------------------- claim C28

\* The result took its price from the fallback.
FellBack(r) == StartsWith(r.Match_Logic_Comment, C_fallback_used)

\* C28: a T2 product whose city is not in city_state_map (state 'unknown')
\* never receives a fallback price, so a T1 city that is not in the map
\* (faridabad) never serves as a fallback source.
C28_NoFallbackAcrossUnknownState ==
    pc = "t2_fallback" =>
      \A k \in 1..Len(matches) :
        ProductOf(matches[k]).state = W_state_unknown => ~FellBack(matches[k])

\* ------------------------------------- revenue weights and tiers alone

MaxWeightRows == 3

\* The revenue weight of a product in the caller's table: no row for it, or
\* a row with a zero, positive or missing weight.
WeightCells == {None, NaN, 0, 1, 4}

\* The caller's revenue-weight table for the weights w of products 1..n.
GmvTableOf(w) ==
    LET codes == SelectSeq([i \in 1..Len(w) |-> i], LAMBDA i : w[i] # None)
    IN  [k \in 1..Len(codes) |-> GmvRow(codes[k], w[codes[k]])]

InitWeights ==
    /\ pc = "stock"
    /\ im_df = <<>>
    /\ comp_df = <<>>
    /\ todo = <<>>
    /\ sub_im = <<>>
    /\ sub_comp = <<>>
    /\ valid_comp = <<>>
    /\ matches = <<>>
    /\ first_run = <<>>
    /\ target_margin_override = None
    /\ \E n \in 1..MaxWeightRows :
         \E uoms \in [1..n -> {U12_pieces, U30_pieces}],
            w \in [1..n -> WeightCells] :
              /\ df = [i \in 1..n |-> [CITY |-> S_Delhi, ITEM_CODE |-> i,
                                       Normalized_UOM |-> uoms[i]]]
              /\ inputs = [gmv |-> GmvTableOf(w), sdpo |-> <<>>]

NextWeights == MergeGmv \/ MergeBrandSdpo \/ CalculateKviTiers

SpecWeights == InitWeights /\ [][NextWeights]_vars

\* ------------------------------------------------------------- claim C24

\* The revenue weight the caller's table gives to a product is zero: the
\* table is empty, has no row for it, or has a row with weight 0 or missing.
ZeroWeight(code) ==
    \A k \in 1..Len(inputs.gmv) :
        inputs.gmv[k].ITEM_CODE = code
            => inputs.gmv[k].GMV_Contribution \in {0, NaN}

\* C24: every product whose revenue weight is zero, and so every product when
\* the revenue-weight table is empty, is Tier 3, whatever its position in its
\* (city, pack_category) group and the weights of the other products are.
C24_ZeroWeightIsTier3 ==
    pc = "kvi_tiers" =>
      \A i \in 1..Len(df) :
        (df[i].GMV_Contribution = 0 \/ ZeroWeight(df[i].ITEM_CODE))
            => df[i].kvi_tier = "Tier 3"

\* A product without weight is the first row of a group whose second row has
\* weight 4: its cumulative share is 0, and it is Tier 3.
C24_Witness ==
    /\ pc = "kvi_tiers"
    /\ Len(df) >= 2
    /\ ZeroWeight(df[1].ITEM_CODE)
    /\ df[2].GMV_Contribution = 4
    /\ df[1].pack_category = df[2].pack_category
    /\ df[1].kvi_tier = "Tier 3"

\* ------------------------------------------------------------- claim C25

\* C25: without an override, the target margin of a branded product is
\* strictly higher than the target margin of a private-label product of the
\* same pack category (Large, Mid, Small, Other), tier and city tier.
C25_BrandedAbovePrivateLabel ==
    (pc = "target_margins" /\ target_margin_override = None) =>
      \A i, j \in 1..Len(df) :
        (/\ ~df[i].is_opp
         /\ df[j].is_opp
         /\ df[i].pack_category = df[j].pack_category
         /\ df[i].kvi_tier = df[j].kvi_tier
         /\ df[i].city_tier = df[j].city_tier)
          => df[i].target_nm > df[j].target_nm

\* ------------------------------------------------------------- claim C26

\* C26: whenever the token parsed from the raw unit is a weight or volume
\* unit, empty, or unrecognized (no unit pattern matches and the string is
\* returned verbatim), and the item name carries a (non-zero) piece count N,
\* normalize returns "N_pieces" instead of the parsed token.
C26_NameCountReplacesNonCount ==
    pc = "normalized" =>
      LET raw   == inputs.im[1].UOM
          name  == inputs.im[1].ITEM_NAME
          s0    == StrLower(StrStrip(Str(raw)))
          token == im_df[1].Normalized_UOM
          ks    == {k \in 1..7 : PatternMatches(k, s0)}
      IN  ((ks = {} \/ MinOf(ks) \in {5, 6}) /\ NameCount(name) # None)
            => token = IntStr(NameCount(name)) \o Suffix_pieces

\* ------------------------------------- private-label matching with ties

MaxTieObs == 2

\* Two private-label products of one group in either row order, with equal
\* or different costs, and observations of the group with equal or different
\* prices from two sources, in every row order.
InitTies ==
    /\ pc = "start"
    /\ NotYetRun
    /\ target_margin_override = None
    /\ \E im \in {<<OppProduct(11962), OppProduct(11966)>>,
                  <<OppProduct(11966), OppProduct(11962)>>},
          c1 \in {5 * Unit, 6 * Unit}, c2 \in {5 * Unit, 6 * Unit},
          n \in 1..MaxTieObs :
          \E prices \in [1..n -> {10 * Unit, 12 * Unit}],
             sources \in [1..n -> {S_blinkit, S_zepto}] :
              inputs = [im    |-> im,
                        comp  |-> [i \in 1..n |->
                                     [OppObservation(prices[i])
                                        EXCEPT !.source = sources[i]]],
                        cogs  |-> <<CogsRow(S_Delhi, 11962, c1),
                                    CogsRow(S_Delhi, 11966, c2)>>,
                        excl  |-> <<>>, stock |-> <<>>, gmv |-> <<>>, sdpo |-> <<>>]

SpecTies == InitTies /\ [][NextOpp]_vars

\* ------------------------------------------------------------- claim C27

\* The matched price, brand and source of every product in the results t.
MatchSetOf(t) ==
    {<<t[i].CITY, t[i].ITEM_CODE, t[i].Min_Comp_Price, t[i].Min_Comp_Brand,
       t[i].Min_Comp_Source>> : i \in 1..Len(t)}

\* The results _match_opp can return for the prepared tables in any row
\* order: every order of the products that ascends in cost and every order
\* of the pool that ascends in price.
PossibleMatchSets ==
    {MatchSetOf(opp_results_of(by_cost, spaced_subsequence(by_price))) :
        by_cost \in SortedOrders(im_opp_of(im_df), LAMBDA r : r.COGS_LATEST),
        by_price \in SortedOrders(comp_opp_pool_of(comp_df),
                                  LAMBDA r : r.selling_price)}

\* C27: matching is deterministic under ties: with two products of equal
\* cost in a private-label group, or two observations of equal price, the
\* matched price, brand and source of every product are the same for every
\* row order of the input tables.
C27_SameResultsForEveryRowOrder ==
    (pc = "match_opp" /\ todo = <<>> /\ matches # <<>>) =>
      PossibleMatchSets = {MatchSetOf(matches)}

\* ------------------------------------------------------------- claim C29

\* Row i is the last row of its (city, pack_category) group with a positive
\* weight.
LastPositiveRow(i) ==
    /\ df[i].GMV_Contribution > 0
    /\ \A j \in (i + 1)..Len(df) :
         SameKviGroup(df, i, j) => df[j].GMV_Contribution <= 0

\* Row i carries the whole weight of its group.
SoleCarrier(i) ==
    /\ df[i].GMV_Contribution > 0
    /\ \A j \in 1..Len(df) :
         (j # i /\ SameKviGroup(df, i, j)) => df[j].GMV_Contribution = 0

\* C29: the cumulative share is taken in the row order of the table, so in
\* every (city, pack_category) group with a positive total weight the last
\* row with a positive weight has share 1.0 and is Tier 3; a group whose
\* whole weight is carried by one product holds no Tier 1 and no Tier 2
\* product.
C29_LastPositiveRowIsTier3 ==
    pc = "kvi_tiers" =>
      \A i \in 1..Len(df) :
        /\ LastPositiveRow(i) => df[i].kvi_tier = "Tier 3"
        /\ SoleCarrier(i) =>
             \A j \in 1..Len(df) :
               SameKviGroup(df, i, j) => df[j].kvi_tier = "Tier 3"

\* A group of two products with weights 4 and 1 in this row order: the first
\* is Tier 1 (share 0.8) and the last is Tier 3.
C29_Witness ==
    /\ pc = "kvi_tiers"
    /\ Len(df) = 2
    /\ SameKviGroup(df, 1, 2)
    /\ df[1].GMV_Contribution = 4
    /\ df[2].GMV_Contribution = 1
    /\ df[1].kvi_tier = "Tier 1"
    /\ df[2].kvi_tier = "Tier 3"

\* ------------------------------------------------------------- claim C30

\* C30: for every product with cost > 0 and no brand fixed discount, the
\* price selected by the cascade is never below min_margin_price =
\* target_margin x MRP + cost - brand_fixed_discount_amount, also when the
\* Tier-1 2% undercut is applied.
C30_CascadeNeverBelowMinMargin ==
    pc = "prices" =>
      ((/\ Gt(CascadeRow.cogs, 0)
        /\ CascadeRow.Fixed_SDPO_Pct = 0
        /\ ~IsNaN(CascadeRow.price_min_margin))
          => Ge(CascadeRow.model_price, CascadeRow.price_min_margin))

=============================================================================
